---- MODULE Spec2Model ----
(***************************************************************************)
(* ralph-mobile-server: the Event Tailer (watcher.rs), its Broadcast Hub   *)
(* (a tokio broadcast channel), the Process Registry (api/runner.rs),      *)
(* event-path resolution (session.rs) and the per-session pump tasks       *)
(* (main.rs, api/runner.rs).                                               *)
(*                                                                         *)
(* The specifications of the module:                                       *)
(*   Spec              one tailer with every notification kind, read       *)
(*                     errors and direct reads, feeding one subscriber;    *)
(*   SpecFanout        the tailer's normal cycle feeding two subscribers;  *)
(*   SpecLag           the same cycle fed with bulk appends, so that a     *)
(*                     subscriber falls behind the channel's retention;    *)
(*   SpecRegistry      ProcessManager under concurrent callers;            *)
(*   SpecResolve       resolve_events_path over a changing directory;      *)
(*   SpecIsolation     two watchers on two files, called directly;         *)
(*   SpecSessions      the pump tasks of discovered and started sessions   *)
(*                     and an SSE client, under their executors;           *)
(*   SpecSessionsFair  the same with fair executors.                       *)
(***************************************************************************)
EXTENDS Integers, Sequences, FiniteSets, TLC

\* ------------------------------------------------------------------ bounds
\* Lines the external process appends one at a time under Spec.
MaxLines == 3
\* Pending file-change notifications in the notify mpsc queue.
MaxQueue == 1
\* Bulk appends (of CHANNEL_CAPACITY + 1 lines each) under SpecLag.
MaxBulk == 2

\* terminate calls made for one session id under SpecRegistry.
MaxCalls == 2

\* Timestamped log files in a marker directory under SpecResolve.
MaxStamped == 2

\* Events appended to one session's log under the session specifications.
MaxLogLines == 2

\* start_session calls under SpecSessions.
MaxStarted == 1

\* Longest timeout argument of wait_for_events, in clock ticks.
MaxTicks == 1

\* Server restarts under SpecDiscovery.
MaxRuns == 1

\* start_session calls that get as far as a session id, under SpecApi.
MaxSessions == 2

\* stream_events subscriptions under SpecApi.
MaxStreams == 1

\* Lines of an events file handed to a parser.
MaxItLines == 3
MaxMqLines == 3

\* Questions asked of the human, and post_response calls made.
MaxQuestions == 2
MaxPosts == 2

\* stop_session requests made for one session id.
MaxStops == 2

\* Subscription handles that may be created on the hub.
Subs == {1, 2}

\* ------------------------------------------------------- program constants
\* EventWatcher::CHANNEL_CAPACITY
CHANNEL_CAPACITY == 100

\* ProcessManager::terminate: `for _ in 0..20`
ExitPolls == 20

RECURSIVE NextPowerOfTwo(_, _)
NextPowerOfTwo(n, p) == IF p >= n THEN p ELSE NextPowerOfTwo(n, 2 * p)

\* broadcast::channel(CHANNEL_CAPACITY): tokio allocates next_power_of_two
\* slots for the requested capacity, and that many values are retained.
BufferSlots == NextPowerOfTwo(CHANNEL_CAPACITY, 1)

\* ---------------------------------------------------------------- state
VARIABLES
    file,        \* the log: a sequence of lines, TRUE = well-formed JSON event
    position,    \* EventReader cursor: byte offset already consumed
    rx,          \* notify -> tailer queue of file-change notifications
    pc,          \* "idle" | "waiting" (the tailer is inside wait_for_events)
    ret,         \* what the last tailer read call returned to its caller
    chan,        \* every value the broadcast channel has stored, oldest first
    subState,    \* per handle: "none" | "attached" | "dropped"
    next,        \* per handle: channel position of the next value to receive
    start,       \* per handle: number of broadcasts made before it attached
    joined,      \* per handle: number of values stored before it attached
    got,         \* per handle: what recv has returned so far, in order
    published,   \* every event handed to event_tx.send, in order
    returned,    \* every event in a result returned by wait_for_events
    lastReadLen, \* byte length of the file at the last successful read
    spurious,    \* the current wait_for_events call has read and found nothing
    reported,    \* lines that appeared in a result returned to a caller
    procs,       \* ProcessManager.processes: session id -> record
    osState,     \* per child process: "none" | "running" | "zombie" | "reaped"
    lock,        \* holder of the processes mutex, or "free"
    tpc,         \* per caller thread: position inside terminate
    tsid,        \* per caller thread: the session id it is terminating
    polls,       \* per caller thread: exit polls made so far
    sigLog,      \* per child process: signals sent to it, in order
    termLog,     \* per session id: terminate's return values, in return order
    stored,      \* session ids that have been stored
    lookup,      \* the last registry lookup's answer
    sigFailed,   \* per child process: a graceful signal send returned Err
    waitLog,     \* per child process: how terminate's wait loop ended
    fsys,        \* the paths that exist under the project root
    pointer,     \* the current-events pointer file of the marker directory
    resolved,    \* the last answer of resolve_events_path, if still current
    logs,        \* per session log file: number of events appended to it
    tailers,     \* the EventWatchers and their pump tasks, in creation order
    holder,      \* per executor thread: the pump task that occupies it, or 0
    clients,     \* per SSE client: the hub it subscribed to and what it got
    deadline,    \* wait_for_events: its deadline, in ticks after the call
    elapsed,     \* wait_for_events: ticks that have passed since the call
    entry,       \* wait_for_events: cursor and broadcasts made, at the call
    ignored,     \* wait_for_events: the call has ignored a notification
    markers,     \* marker directories on disk that hold an events file
    sessions,    \* AppState.sessions: what discover_sessions returned
    idLog,       \* per marker path: every id derived for it, and in which run
    run,         \* how many times the server has been restarted
    serving,     \* main has built the AppState and the HttpServer runs
    logLevel,    \* the most verbose tracing level that is enabled
    watchers,    \* AppState.watchers: the session ids that have a hub
    streams,     \* per session id: subscriptions attached by stream_events
    active,      \* AppState.active_sessions: its keys
    processes,   \* ProcessManager.processes as the handlers use it: its keys
    child,       \* per started session: its OS process
    task,        \* per started session: the watcher task of start_session
    pointerFile, \* per started session: the current-events pointer on disk
    blocked,     \* worker threads that are inside a pump loop
    started,     \* number of session ids start_session has generated
    resp,        \* the last HTTP response sent
    sse,         \* per subscriber handle: the body of its SSE response
    itLog,       \* the events file get_iterations reads: its lines, in order
    itResult,    \* what parse_iterations returned for itLog, if it was called
    mqLog,       \* merge-queue.jsonl: its lines, in order
    mqResult,    \* what get_merge_queue answered for mqLog, if it was called
    pending_questions, \* RobotState: session id -> question id, 0 = none
    asked,       \* number of question ids generated so far
    rpc,         \* per worker thread: position inside post_response
    rq,          \* per worker thread: the request's id and the question found
    posts,       \* number of post_response calls made
    responses,   \* human.response events appended: the question ids, in order
    acks,        \* per question id: the answers of post_response, in order
    removals,    \* what each remove_question took away, and for which answer
    stopping,    \* per worker thread: the id its stop_session is terminating
    stopLog,     \* per started session: the answers of stop_session, in order
    pump         \* per started session: what its pump loop's waits returned

tailerVars == <<file, position, rx, pc, ret, chan, subState, next, start,
                joined, got, published, returned, lastReadLen, spurious,
                reported>>
registryVars == <<procs, osState, lock, tpc, tsid, polls, sigLog, termLog,
                  stored, lookup, sigFailed, waitLog>>
resolveVars == <<fsys, pointer, resolved>>
sessVars == <<logs, tailers, holder, clients>>
clockVars == <<deadline, elapsed, entry, ignored>>
discVars == <<markers, sessions, idLog, run>>
apiVars == <<serving, logLevel, watchers, streams, active, processes, child,
             task, pointerFile, blocked, started, resp>>
sseVars == <<sse>>
iterVars == <<itLog, itResult>>
mqVars == <<mqLog, mqResult>>
robotVars == <<pending_questions, asked, rpc, rq, posts, responses, acks,
               removals>>
stopVars == <<stopping, stopLog, pump>>
lateVars == <<iterVars, mqVars, robotVars, stopVars>>
vars == <<tailerVars, registryVars, resolveVars, sessVars, clockVars,
          discVars, apiVars, sseVars, lateVars>>

\* ------------------------------------------------------------- Log Reader
\* (ralph_core::EventReader: lines are newline-terminated; a well-formed
\*  line is longer than the malformed ones written by the tests.)
LineBytes(ok) == IF ok THEN 2 ELSE 1

\* Total bytes of the first n lines of f.
PrefixBytes(f, n) ==
    LineBytes(TRUE) * Cardinality({i \in 1..n : f[i]})
      + LineBytes(FALSE) * Cardinality({i \in 1..n : ~f[i]})

FileBytes(f) == PrefixBytes(f, Len(f))

\* Number of whole lines of f that lie before byte offset pos.
LinesBefore(f, pos) ==
    Cardinality({n \in 1..Len(f) : PrefixBytes(f, n) <= pos})

\* The line numbers of f after its first n lines, in file order.
LinesAfter(f, n) == [k \in 1..(Len(f) - n) |-> n + k]

ReadNewEvents_SkipMalformedBytes(f, pos) ==
    LET unread == LinesAfter(f, LinesBefore(f, pos))
    IN [events    |-> SelectSeq(unread, LAMBDA i : f[i]),
        malformed |-> SelectSeq(unread, LAMBDA i : ~f[i]),
        position  |-> pos + LineBytes(TRUE)
                              * Len(SelectSeq(unread, LAMBDA i : f[i]))]

\* EventReader::read_new_events: the events appended since pos in file
\* order, the malformed lines among them, and the advanced offset.
ReadNewEvents(f, pos) ==
    LET unread == LinesAfter(f, LinesBefore(f, pos))
    IN [events    |-> SelectSeq(unread, LAMBDA i : f[i]),
        malformed |-> SelectSeq(unread, LAMBDA i : ~f[i]),
        position  |-> FileBytes(f)]

NoResult == [some |-> FALSE, events |-> <<>>, malformed |-> <<>>]
SomeResult(r) == [some |-> TRUE, events |-> r.events, malformed |-> r.malformed]

\* ---------------------------------------------------------- Broadcast Hub
Attached == {s \in Subs : subState[s] = "attached"}

RxCount_AnyDropped ==
    IF \E s \in Subs : subState[s] = "dropped" THEN 0
    ELSE Cardinality(Attached)

\* The channel's count of live receivers (rx_cnt).
RxCount == Cardinality(Attached)

SendStores_Always(rxCnt) == TRUE

\* event_tx.send(event.clone()): with no receiver the value is handed back
\* as an error and nothing is stored; otherwise it is stored at the tail.
SendStores(rxCnt) == rxCnt > 0

Reverse(seq) == [i \in 1..Len(seq) |-> seq[Len(seq) + 1 - i]]

BroadcastEvents_Reversed(h, rxCnt, events) ==
    [chan |-> h.chan \o SelectSeq(Reverse(events), LAMBDA e : SendStores(rxCnt)),
     sent |-> h.sent \o Reverse(events)]

\* EventWatcher::broadcast_events: send every event, in order, ignoring the
\* errors. h.chan is the channel, h.sent the log of the send calls.
BroadcastEvents(h, rxCnt, events) ==
    [chan |-> h.chan \o SelectSeq(events, LAMBDA e : SendStores(rxCnt)),
     sent |-> h.sent \o events]

Event(e) == [ev |-> e, lag |-> 0]
Lagged(n) == [ev |-> 0, lag |-> n]

\* broadcast::Receiver::recv for a handle at position n: "empty" when caught
\* up; a Lagged(missed) notice when its slot was overwritten, the handle then
\* moving to the oldest retained value; otherwise the value at n.
RecvOutcome(ch, n) ==
    IF n = Len(ch) THEN [kind |-> "empty", item |-> Lagged(0), next |-> n]
    ELSE IF Len(ch) - n > BufferSlots
         THEN [kind |-> "lagged",
               item |-> Lagged(Len(ch) - BufferSlots - n),
               next |-> Len(ch) - BufferSlots]
         ELSE [kind |-> "event", item |-> Event(ch[n + 1]), next |-> n + 1]

\* recv repeated until the channel is empty: the items and the end position.
\* Nothing is sent meanwhile, so only the first recv can report a lag.
DrainOutcome(ch, n) ==
    LET o == RecvOutcome(ch, n)
        p == IF o.kind = "lagged" THEN o.next ELSE n
        notice == IF o.kind = "lagged" THEN <<o.item>> ELSE <<>>
    IN [items |-> notice \o [k \in 1..(Len(ch) - p) |->
                                RecvOutcome(ch, p + k - 1).item],
        next  |-> Len(ch)]

\* ------------------------------------------------------------ tailer init
InitTailer ==
    /\ file = <<>>
    /\ position = 0
    /\ rx = <<>>
    /\ pc = "idle"
    /\ ret = NoResult
    /\ chan = <<>>
    /\ subState = [s \in Subs |-> "none"]
    /\ next = [s \in Subs |-> 0]
    /\ start = [s \in Subs |-> 0]
    /\ joined = [s \in Subs |-> 0]
    /\ got = [s \in Subs |-> <<>>]
    /\ published = <<>>
    /\ returned = <<>>
    /\ lastReadLen = 0
    /\ spurious = FALSE
    /\ reported = {}

hubVars == <<chan, subState, next, start, joined, got>>

\* ------------------------------------------------- the external log writer
\* The agent process appends k lines of one kind to its log.
AppendLines(k, ok) ==
    /\ file' = file \o [i \in 1..k |-> ok]
    /\ UNCHANGED <<position, rx, pc, ret, hubVars, published, returned,
                   lastReadLen, spurious, reported>>

NotifyKinds == {"Modify", "Create", "Other", "Error"}

\* The notify backend's callback: tx.send(res). A notification may follow an
\* append or be spurious; "Error" is an Err(notify::Error) item.
Notify(kind) ==
    /\ Len(rx) < MaxQueue
    /\ rx' = Append(rx, kind)
    /\ UNCHANGED <<file, position, pc, ret, hubVars, published, returned,
                   lastReadLen, spurious, reported>>

\* ------------------------------------------------------------ Event Tailer
\* wait_for_events is entered: the deadline is fixed here.
StartWait ==
    /\ pc = "idle"
    /\ pc' = "waiting"
    /\ spurious' = FALSE
    /\ UNCHANGED <<file, position, rx, ret, hubVars, published, returned,
                   lastReadLen, reported>>

\* The deadline passes: remaining.is_zero(), or recv_timeout times out.
Timeout ==
    /\ pc = "waiting"
    /\ pc' = "idle"
    /\ ret' = NoResult
    /\ UNCHANGED <<file, position, rx, hubVars, published, returned,
                   lastReadLen, spurious, reported>>

TailerRead_FreshReader == ReadNewEvents(file, 0)

\* self.reader.read_new_events(): the tailer's one reader, at its cursor.
TailerRead == ReadNewEvents(file, position)

HasNewContent_EventsOnly(r) == r.events # <<>>

HasNewContent_Always(r) == TRUE

\* !result.events.is_empty() || !result.malformed.is_empty()
HasNewContent(r) == r.events # <<>> \/ r.malformed # <<>>

Range(seq) == {seq[i] : i \in DOMAIN seq}

Actionable_AnyKind(kind) == kind # "Error"

\* matches!(event.kind, EventKind::Modify(_) | EventKind::Create(_))
Actionable(kind) == kind \in {"Modify", "Create"}

\* Ok(Ok(event)) of kind Modify or Create, and the read succeeds.
WakeRead ==
    /\ pc = "waiting"
    /\ rx # <<>>
    /\ Actionable(Head(rx))
    /\ rx' = Tail(rx)
    /\ LET r == TailerRead
       IN /\ position' = r.position
          /\ lastReadLen' = FileBytes(file)
          /\ IF HasNewContent(r)
             THEN LET h == BroadcastEvents([chan |-> chan, sent |-> published],
                                           RxCount, r.events)
                  IN /\ chan' = h.chan
                     /\ published' = h.sent
                     /\ returned' = returned \o r.events
                     /\ reported' = reported \cup Range(r.events)
                                              \cup Range(r.malformed)
                     /\ ret' = SomeResult(r)
                     /\ pc' = "idle"
                     /\ UNCHANGED spurious
             ELSE /\ spurious' = TRUE
                  /\ UNCHANGED <<chan, published, returned, ret, pc, reported>>
    /\ UNCHANGED <<file, subState, next, start, joined, got>>

\* Ok(Ok(event)) of kind Modify or Create, and the read fails: Err(e).
WakeReadError ==
    /\ pc = "waiting"
    /\ rx # <<>>
    /\ Actionable(Head(rx))
    /\ rx' = Tail(rx)
    /\ pc' = "idle"
    /\ ret' = NoResult
    /\ UNCHANGED <<file, position, hubVars, published, returned,
                   lastReadLen, spurious, reported>>

\* Ok(Ok(event)) of any other kind: consumed, keep waiting.
WakeIgnored ==
    /\ pc = "waiting"
    /\ rx # <<>>
    /\ Head(rx) # "Error"
    /\ ~Actionable(Head(rx))
    /\ rx' = Tail(rx)
    /\ UNCHANGED <<file, position, pc, ret, hubVars, published, returned,
                   lastReadLen, spurious, reported>>

\* Ok(Err(e)): the watcher reported an error.
WakeWatcherError ==
    /\ pc = "waiting"
    /\ rx # <<>>
    /\ Head(rx) = "Error"
    /\ rx' = Tail(rx)
    /\ pc' = "idle"
    /\ ret' = NoResult
    /\ UNCHANGED <<file, position, hubVars, published, returned,
                   lastReadLen, spurious, reported>>

\* read_current_events: a read without waiting and without broadcasting.
ReadCurrentEvents ==
    /\ pc = "idle"
    /\ LET r == TailerRead
       IN /\ position' = r.position
          /\ ret' = SomeResult(r)
          /\ reported' = reported \cup Range(r.events) \cup Range(r.malformed)
    /\ lastReadLen' = FileBytes(file)
    /\ UNCHANGED <<file, rx, pc, hubVars, published, returned, spurious>>

\* EventWatcher::position
Position == position

\* ------------------------------------------------------------- subscribers
\* EventWatcher::subscribe / SessionBroadcast::subscribe. Handles are
\* interchangeable, so they are handed out in increasing order.
Subscribe(s) ==
    /\ subState[s] = "none"
    /\ \A u \in Subs : u < s => subState[u] # "none"
    /\ subState' = [subState EXCEPT ![s] = "attached"]
    /\ next' = [next EXCEPT ![s] = Len(chan)]
    /\ start' = [start EXCEPT ![s] = Len(published)]
    /\ joined' = [joined EXCEPT ![s] = Len(chan)]
    /\ UNCHANGED <<file, position, rx, pc, ret, chan, got, published,
                   returned, lastReadLen, spurious, reported>>

\* The receiver handle is dropped, and its position with it.
Detach(s) ==
    /\ subState[s] = "attached"
    /\ subState' = [subState EXCEPT ![s] = "dropped"]
    /\ next' = [next EXCEPT ![s] = 0]
    /\ start' = [start EXCEPT ![s] = 0]
    /\ joined' = [joined EXCEPT ![s] = 0]
    /\ got' = [got EXCEPT ![s] = <<>>]
    /\ UNCHANGED <<file, position, rx, pc, ret, chan,
                   published, returned, lastReadLen, spurious, reported>>

\* One recv / try_recv that returns something.
Recv(s) ==
    /\ subState[s] = "attached"
    /\ LET o == RecvOutcome(chan, next[s])
       IN /\ o.kind # "empty"
          /\ next' = [next EXCEPT ![s] = o.next]
          /\ got' = [got EXCEPT ![s] = Append(@, o.item)]
    /\ UNCHANGED <<file, position, rx, pc, ret, chan, subState, start, joined,
                   published, returned, lastReadLen, spurious, reported>>

\* recv in a loop until the channel is empty.
Drain(s) ==
    /\ subState[s] = "attached"
    /\ next[s] # Len(chan)
    /\ LET d == DrainOutcome(chan, next[s])
       IN /\ next' = [next EXCEPT ![s] = d.next]
          /\ got' = [got EXCEPT ![s] = @ \o d.items]
    /\ UNCHANGED <<file, position, rx, pc, ret, chan, subState, start, joined,
                   published, returned, lastReadLen, spurious, reported>>

TailerStep ==
    \/ StartWait
    \/ Timeout
    \/ WakeRead
    \/ WakeReadError
    \/ WakeIgnored
    \/ WakeWatcherError
    \/ ReadCurrentEvents

\* ------------------------------------------------- the deadline of a wait
InitClock ==
    /\ deadline = 0
    /\ elapsed = 0
    /\ entry = [position |-> 0, sent |-> 0]
    /\ ignored = FALSE

Remaining_FromNow == deadline

\* deadline.saturating_duration_since(Instant::now())
Remaining == IF deadline > elapsed THEN deadline - elapsed ELSE 0

\* wait_for_events(timeout): deadline = Instant::now() + timeout.
CallWaitForEvents(timeout) ==
    /\ StartWait
    /\ deadline' = timeout
    /\ elapsed' = 0
    /\ entry' = [position |-> position, sent |-> Len(published)]
    /\ ignored' = FALSE

\* Time passes while the call is in progress.
Tick ==
    /\ pc = "waiting"
    /\ elapsed < MaxTicks
    /\ elapsed' = elapsed + 1
    /\ UNCHANGED <<tailerVars, deadline, entry, ignored>>

\* remaining.is_zero(), or recv_timeout(remaining) gives Err(Timeout).
DeadlineReached ==
    /\ Remaining = 0
    /\ Timeout
    /\ UNCHANGED clockVars

\* recv_timeout(remaining) gives Ok(..) while time remains.
Wake ==
    /\ Remaining > 0
    /\ \/ WakeRead /\ UNCHANGED ignored
       \/ WakeReadError /\ UNCHANGED ignored
       \/ WakeIgnored /\ ignored' = TRUE
       \/ WakeWatcherError /\ UNCHANGED ignored
    /\ UNCHANGED <<deadline, elapsed, entry>>

\* ======================================================= Process Registry
Sids == {"s1", "s2"}
Threads == {"t1", "t2"}

NoRecord == [present |-> FALSE, pid |-> 0, dir |-> "-"]
PidOf(sid) == IF sid = "s1" THEN 101 ELSE 102
DirOf(sid) == IF sid = "s1" THEN "/w1" ELSE "/w2"

InitRegistry ==
    /\ procs = [sid \in Sids |-> NoRecord]
    /\ osState = [sid \in Sids |-> "none"]
    /\ lock = "free"
    /\ tpc = [t \in Threads |-> "idle"]
    /\ tsid = [t \in Threads |-> "s1"]
    /\ polls = [t \in Threads |-> 0]
    /\ sigLog = [sid \in Sids |-> <<>>]
    /\ termLog = [sid \in Sids |-> <<>>]
    /\ stored = {}
    /\ lookup = [op |-> "none", sid |-> "s1", found |-> FALSE,
                 pid |-> 0, dir |-> "-"]
    /\ sigFailed = [sid \in Sids |-> FALSE]
    /\ waitLog = [sid \in Sids |-> "none"]

IsRunning_Alive(sid) == procs[sid].present /\ osState[sid] = "running"

\* ProcessManager::is_running
IsRunning(sid) == procs[sid].present

\* ProcessManager::get_pid (0 stands for None)
GetPid(sid) == IF procs[sid].present THEN procs[sid].pid ELSE 0

\* ProcessManager::get_working_dir ("-" stands for None)
GetWorkingDir(sid) == IF procs[sid].present THEN procs[sid].dir ELSE "-"

\* spawn_ralph_process followed by ProcessManager::store, for a session id
\* fresh from Uuid::new_v4: the child runs and its record is inserted.
Store(sid) ==
    /\ lock = "free"
    /\ sid \notin stored
    /\ osState[sid] = "none"
    /\ osState' = [osState EXCEPT ![sid] = "running"]
    /\ procs' = [procs EXCEPT ![sid] =
                    [present |-> TRUE, pid |-> PidOf(sid), dir |-> DirOf(sid)]]
    /\ stored' = stored \cup {sid}
    /\ UNCHANGED <<lock, tpc, tsid, polls, sigLog, termLog, lookup,
                   sigFailed, waitLog>>

\* is_running / get_pid / get_working_dir: lock, look up, unlock.
Lookup(op, sid) ==
    /\ lock = "free"
    /\ lookup' = [op |-> op, sid |-> sid, found |-> IsRunning(sid),
                  pid |-> GetPid(sid), dir |-> GetWorkingDir(sid)]
    /\ UNCHANGED <<procs, osState, lock, tpc, tsid, polls, sigLog, termLog,
                   stored, sigFailed, waitLog>>

\* The child exits by itself or in reaction to a signal it honours.
ProcExit(sid) ==
    /\ osState[sid] = "running"
    /\ osState' = [osState EXCEPT ![sid] = "zombie"]
    /\ UNCHANGED <<procs, lock, tpc, tsid, polls, sigLog, termLog, stored,
                   lookup, sigFailed, waitLog>>

\* terminate returns: its locals and the mutex guard go out of scope.
TermReturn(t, sid, removed) ==
    /\ termLog' = [termLog EXCEPT ![sid] = Append(@, removed)]
    /\ tpc' = [tpc EXCEPT ![t] = "idle"]
    /\ tsid' = [tsid EXCEPT ![t] = "s1"]
    /\ polls' = [polls EXCEPT ![t] = 0]
    /\ lock' = "free"

TermRemove_Keep(sid) == procs

NotFoundResult_True == TRUE

\* `Ok(false)`: no record for the session id.
NotFoundResult == FALSE

\* procs.remove(session_id)
TermRemove(sid) == [procs EXCEPT ![sid] = NoRecord]

\* terminate: processes.lock(), procs.remove(session_id); Ok(false) when
\* there is no record. The guard lives until terminate returns.
TermLock(t, sid) ==
    /\ tpc[t] = "idle"
    /\ lock = "free"
    /\ Len(termLog[sid]) < MaxCalls
    /\ IF procs[sid].present
       THEN /\ procs' = TermRemove(sid)
            /\ lock' = t
            /\ tpc' = [tpc EXCEPT ![t] = "signal"]
            /\ tsid' = [tsid EXCEPT ![t] = sid]
            /\ polls' = [polls EXCEPT ![t] = 0]
            /\ UNCHANGED termLog
       ELSE /\ TermReturn(t, sid, NotFoundResult)
            /\ UNCHANGED procs
    /\ UNCHANGED <<osState, sigLog, stored, lookup, sigFailed, waitLog>>

\* SIGTERM to the process group, then to the process. Both results are
\* discarded (`let _ =`); failed = TRUE is a send that returned Err.
TermSignal(t, failed) ==
    /\ tpc[t] = "signal"
    /\ sigLog' = [sigLog EXCEPT ![tsid[t]] = @ \o <<"TERM-group", "TERM">>]
    /\ sigFailed' = [sigFailed EXCEPT ![tsid[t]] = failed]
    /\ tpc' = [tpc EXCEPT ![t] = "poll"]
    /\ UNCHANGED <<procs, osState, lock, tsid, polls, termLog, stored, lookup,
                   waitLog>>

TryWait_NoReap(st) ==
    IF st = "zombie" THEN [status |-> "exited", state |-> "zombie"]
    ELSE [status |-> "running", state |-> st]

\* child.try_wait() returning Ok: Some(status) collects the exit status of
\* a child that has exited, None leaves a running child as it is.
TryWait(st) ==
    IF st = "zombie" THEN [status |-> "exited", state |-> "reaped"]
    ELSE [status |-> "running", state |-> st]

AfterPoll_KillAnyway(outcome, n) ==
    IF outcome = "error" \/ outcome = "exited" \/ n = ExitPolls
    THEN "kill" ELSE "poll"

\* The arms of the match in the wait loop, for the n-th poll:
\* Ok(Some(_)) => return, Ok(None) => continue, Err(_) => break.
AfterPoll(outcome, n) ==
    IF outcome = "exited" THEN "return"
    ELSE IF outcome = "error" \/ n = ExitPolls THEN "kill" ELSE "poll"

FoundResult_False == FALSE

\* `Ok(true)`: a record was found and removed.
FoundResult == TRUE

\* One round of the wait loop: sleep 100 ms, child.try_wait().
\* failed = TRUE is the Err(_) arm.
TermPoll(t, failed) ==
    /\ tpc[t] = "poll"
    /\ polls[t] < ExitPolls
    /\ LET sid == tsid[t]
           w == TryWait(osState[sid])
           outcome == IF failed THEN "error" ELSE w.status
           after == AfterPoll(outcome, polls[t] + 1)
       IN /\ osState' = IF failed THEN osState
                        ELSE [osState EXCEPT ![sid] = w.state]
          /\ waitLog' = [waitLog EXCEPT ![sid] =
                            IF outcome # "running" THEN outcome
                            ELSE IF polls[t] + 1 = ExitPolls THEN "elapsed"
                            ELSE @]
          /\ IF after = "return"
             THEN TermReturn(t, sid, FoundResult)
             ELSE /\ tpc' = [tpc EXCEPT ![t] = after]
                  /\ polls' = [polls EXCEPT ![t] = @ + 1]
                  /\ UNCHANGED <<termLog, lock, tsid>>
    /\ UNCHANGED <<procs, sigLog, stored, lookup, sigFailed>>

KillAndWait_NoWait(st) == st

\* child.kill(); child.wait(): SIGKILL cannot be ignored, and wait blocks
\* until the child has exited and collects its status.
KillAndWait(st) == "reaped"

\* child.kill(); child.wait(); Ok(true)
TermKill(t) ==
    /\ tpc[t] = "kill"
    /\ sigLog' = [sigLog EXCEPT ![tsid[t]] = Append(@, "KILL")]
    /\ osState' = [osState EXCEPT ![tsid[t]] = KillAndWait(@)]
    /\ TermReturn(t, tsid[t], FoundResult)
    /\ UNCHANGED <<procs, stored, lookup, sigFailed, waitLog>>

RegistryStep ==
    \/ \E sid \in Sids : Store(sid)
    \/ \E sid \in Sids : ProcExit(sid)
    \/ \E op \in {"is_running", "get_pid", "get_working_dir"}, sid \in Sids :
          Lookup(op, sid)
    \/ \E t \in Threads, sid \in Sids : TermLock(t, sid)
    \/ \E t \in Threads, failed \in BOOLEAN : TermSignal(t, failed)
    \/ \E t \in Threads, failed \in BOOLEAN : TermPoll(t, failed)
    \/ \E t \in Threads : TermKill(t)

\* ================================================= event-path resolution
\* (session.rs) A file name is a prefix, a timestamp and a suffix; the
\* timestamp is a sequence of digits.
Stamps == {<<0>>, <<0, 1>>, <<1>>, <<1, 0>>}

Name(prefix, stamp, suffix) ==
    [prefix |-> prefix, stamp |-> stamp, suffix |-> suffix]

\* "events.jsonl"
StaticName == Name("events", <<>>, ".jsonl")

\* "events-<stamp>.jsonl"
StampedName(st) == Name("events-", st, ".jsonl")

\* Other entries a marker directory may hold: "events-11.json" and
\* "notes-1.jsonl" match the pattern in part only.
OtherNames == {Name("events-", <<1, 1>>, ".json"),
               Name("notes-", <<1>>, ".jsonl")}

InMarker(n) == [dir |-> "marker", name |-> n]
InRoot(n) == [dir |-> "root", name |-> n]

\* The project root itself, and the names a pointer may hold.
RootDir == InRoot(Name("", <<>>, ""))
RunLog == InRoot(Name("run", <<>>, ".jsonl"))
NoSuchPath == InRoot(Name("?", <<>>, ""))

MarkerPaths ==
    {InMarker(StaticName)} \cup {InMarker(StampedName(st)) : st \in Stamps}
        \cup {InMarker(n) : n \in OtherNames}

\* name.starts_with("events-") && name.ends_with(".jsonl")
StampedIn(fs) == {p \in fs : p.dir = "marker" /\ p.name.prefix = "events-"
                                /\ p.name.suffix = ".jsonl"}

\* The contents of a pointer file: characters, each one white space or a
\* piece of a path.
Ws == [ws |-> TRUE, path |-> RootDir]
Ch(p) == [ws |-> FALSE, path |-> p]

PointerTargets == {RunLog, InMarker(StampedName(<<0>>)), InMarker(StaticName)}

PointerTexts ==
    {<<>>, <<Ws>>}
      \cup {<<Ch(p)>> : p \in PointerTargets}
      \cup {<<Ch(p), Ws>> : p \in PointerTargets}
      \cup {<<Ws, Ch(p), Ws>> : p \in PointerTargets}
      \cup {<<Ch(p), Ws, Ch(p)>> : p \in PointerTargets}

NoPointer == [state |-> "absent", text |-> <<>>]

NoneYet == [done |-> FALSE, some |-> FALSE, path |-> RootDir]
SomePath(p) == [done |-> TRUE, some |-> TRUE, path |-> p]
NonePath == [done |-> TRUE, some |-> FALSE, path |-> RootDir]

InitResolve ==
    /\ fsys = {RootDir}
    /\ pointer = NoPointer
    /\ resolved = NoneYet

\* str::trim: the text without its leading and trailing white space.
Trim(text) ==
    LET solid == {i \in DOMAIN text : ~text[i].ws}
    IN IF solid = {} THEN <<>>
       ELSE LET lo == CHOOSE i \in solid : \A j \in solid : i <= j
                hi == CHOOSE i \in solid : \A j \in solid : j <= i
            IN SubSeq(text, lo, hi)

\* project_root.join(relative): joining the empty path gives the root.
Join(relative) ==
    IF relative = <<>> THEN RootDir
    ELSE IF Len(relative) = 1 THEN relative[1].path
    ELSE NoSuchPath

\* Byte order of two file names that differ in their timestamps only: the
\* first differing digit decides, and a timestamp that is a proper prefix
\* of the other comes first ('.' sorts before every digit).
NameLess(a, b) ==
    \E k \in 1..(Len(a.stamp) + 1) :
        /\ \A j \in 1..(k - 1) : j <= Len(b.stamp) /\ a.stamp[j] = b.stamp[j]
        /\ \/ k = Len(a.stamp) + 1 /\ Len(b.stamp) >= k
           \/ k <= Len(a.stamp) /\ k <= Len(b.stamp) /\ a.stamp[k] < b.stamp[k]

\* event_files.sort_by_key(|e| e.file_name())
SortByFileName(files) ==
    [i \in 1..Cardinality(files) |->
        CHOOSE p \in files :
            Cardinality({q \in files : NameLess(q.name, p.name)}) = i - 1]

\* The pointer step: Some(full_path) when the pointer exists, can be read,
\* and names an existing path.
PointerStep(fs, ptr) ==
    IF ptr.state = "text" /\ Join(Trim(ptr.text)) \in fs
    THEN SomePath(Join(Trim(ptr.text)))
    ELSE NonePath

\* The fallbacks: events.jsonl, then the last of the sorted events-*.jsonl.
FallbackStep(fs) ==
    IF InMarker(StaticName) \in fs THEN SomePath(InMarker(StaticName))
    ELSE LET event_files == SortByFileName(StampedIn(fs))
         IN IF event_files # <<>>
            THEN SomePath(event_files[Len(event_files)])
            ELSE NonePath

ResolveEventsPath_StaticFirst(fs, ptr) ==
    IF InMarker(StaticName) \in fs THEN SomePath(InMarker(StaticName))
    ELSE IF PointerStep(fs, ptr).some THEN PointerStep(fs, ptr)
    ELSE FallbackStep(fs)

\* session::resolve_events_path
ResolveEventsPath(fs, ptr) ==
    IF PointerStep(fs, ptr).some THEN PointerStep(fs, ptr)
    ELSE FallbackStep(fs)

\* The agent (or a test) creates a file or a directory entry.
CreatePath(p) ==
    /\ p \notin fsys
    /\ fsys' = fsys \cup {p}
    /\ resolved' = NoneYet
    /\ UNCHANGED pointer

\* The agent writes the pointer file; unreadable = TRUE is a pointer that
\* exists and whose read fails.
WritePointer(text, unreadable) ==
    /\ pointer' = IF unreadable THEN [state |-> "unreadable", text |-> <<>>]
                  ELSE [state |-> "text", text |-> text]
    /\ pointer' # pointer
    /\ resolved' = NoneYet
    /\ UNCHANGED fsys

\* A call of resolve_events_path on the marker directory.
Resolve ==
    /\ ~resolved.done
    /\ resolved' = ResolveEventsPath(fsys, pointer)
    /\ UNCHANGED <<fsys, pointer>>

ResolveStep ==
    \/ \E p \in MarkerPaths \cup {RunLog} :
          /\ p \in StampedIn({p}) => Cardinality(StampedIn(fsys)) < MaxStamped
          /\ CreatePath(p)
    \/ \E text \in PointerTexts : WritePointer(text, FALSE)
    \/ WritePointer(<<>>, TRUE)
    \/ Resolve

\* ================================================================ sessions
\* (main.rs, api/runner.rs, api/events.rs) Two project directories hold a
\* marker directory each; both are discovered at startup. The events file
\* their pointer resolves to is the log of the directory.
Dirs == {"wA", "wB"}
LogOf(dir) == IF dir = "wA" THEN "pA" ELSE "pB"
LogPaths == {LogOf(dir) : dir \in Dirs}

\* The thread of the main function and the HttpServer worker threads.
Workers == {"w1", "w2"}
ExecThreads == {"main"} \cup Workers

Clients == {"c1", "c2"}

MaxTailers == Cardinality(Dirs) + MaxStarted

\* An EventWatcher on path, with the task that pumps it on thread.
\* state: "polling" (start_session's task awaits the pointer; no watcher
\* yet), "ready" (watcher created, task not polled yet), "pumping" (the
\* task is inside its pump loop).
NewTailer(path, thread, state) ==
    [path |-> path, thread |-> thread, state |-> state,
     notified |-> FALSE, pos |-> 0, sent |-> <<>>]

NoClient == [hub |-> 0, thread |-> "main", from |-> 0, got |-> <<>>]

\* main: an EventWatcher and a spawned pump task per discovered session.
InitSessions ==
    /\ logs = [p \in LogPaths |-> 0]
    /\ tailers = <<NewTailer(LogOf("wA"), "main", "ready"),
                   NewTailer(LogOf("wB"), "main", "ready")>>
    /\ holder = [th \in ExecThreads |-> 0]
    /\ clients = [c \in Clients |-> NoClient]

\* The EventWatcher of task k exists: its watch is installed.
Watching(k) == tailers[k].state \in {"ready", "pumping"}

\* The agent of a session appends an event to its log; every watch on the
\* file delivers a notification.
LogAppend(p) ==
    /\ logs[p] < MaxLogLines
    /\ logs' = [logs EXCEPT ![p] = @ + 1]
    /\ tailers' = [k \in DOMAIN tailers |->
                      IF tailers[k].path = p /\ Watching(k)
                      THEN [tailers[k] EXCEPT !.notified = TRUE]
                      ELSE tailers[k]]
    /\ UNCHANGED <<holder, clients>>

ReadLog_SharedPath(path, pos) ==
    [n \in 1..(logs[LogOf("wA")] - pos) |->
        [path |-> LogOf("wA"), line |-> pos + n]]

\* self.reader.read_new_events() of the watcher's own reader, created by
\* EventReader::new(&path): the events of its file after its cursor.
ReadLog(path, pos) ==
    [n \in 1..(logs[path] - pos) |-> [path |-> path, line |-> pos + n]]

\* One wait_for_events call of a watcher: a pending notification is
\* consumed and what the read returns is broadcast on the watcher's own
\* event_tx; without a notification the call times out.
WaitForEvents(t) ==
    IF t.notified
    THEN [t EXCEPT !.notified = FALSE,
                   !.pos = @ + Len(ReadLog(t.path, t.pos)),
                   !.sent = @ \o ReadLog(t.path, t.pos)]
    ELSE t

\* wait_for_events called directly, as the tests do.
CallWait(k) ==
    /\ k \in DOMAIN tailers
    /\ Watching(k)
    /\ tailers' = [tailers EXCEPT ![k] = WaitForEvents(@)]
    /\ UNCHANGED <<logs, holder, clients>>

\* watchers.get(&session_id): the SessionBroadcast stored for the session.
HubOf(k) == k

\* watcher.subscribe(): receive from the hub's tail on.
ClientSubscribe(c, k, w) ==
    /\ clients[c].hub = 0
    /\ k \in DOMAIN tailers
    /\ Watching(k)
    /\ clients' = [clients EXCEPT ![c] =
                      [hub |-> HubOf(k), thread |-> w,
                       from |-> Len(tailers[HubOf(k)].sent), got |-> <<>>]]
    /\ UNCHANGED <<logs, tailers, holder>>

\* The client's stream yields the next event of its hub.
ClientRecv(c) ==
    /\ clients[c].hub # 0
    /\ LET cl == clients[c]
           n == cl.from + Len(cl.got)
       IN /\ n < Len(tailers[cl.hub].sent)
          /\ clients' = [clients EXCEPT ![c].got =
                            Append(@, tailers[cl.hub].sent[n + 1])]
    /\ UNCHANGED <<logs, tailers, holder>>

\* The executor of a thread polls a spawned pump task for the first time.
\* The task enters `loop { watcher.wait_for_events(..) }`, which has no
\* await: the poll never returns and the thread runs nothing else.
Schedule(k) ==
    /\ k \in DOMAIN tailers
    /\ tailers[k].state = "ready"
    /\ holder[tailers[k].thread] = 0
    /\ tailers' = [tailers EXCEPT ![k].state = "pumping"]
    /\ holder' = [holder EXCEPT ![tailers[k].thread] = k]
    /\ UNCHANGED <<logs, clients>>

\* One round of the pump loop of a task that has the thread.
PumpLoop(k) ==
    /\ k \in DOMAIN tailers
    /\ tailers[k].state = "pumping"
    /\ holder[tailers[k].thread] = k
    /\ tailers' = [tailers EXCEPT ![k] = WaitForEvents(@)]
    /\ UNCHANGED <<logs, holder, clients>>

\* POST /api/sessions handled on worker w for a working directory: the
\* watcher task is spawned on the worker's thread and awaits the pointer.
StartSession(dir, w) ==
    /\ holder[w] = 0
    /\ Len(tailers) < MaxTailers
    /\ tailers' = Append(tailers, NewTailer(LogOf(dir), w, "polling"))
    /\ UNCHANGED <<logs, holder, clients>>

\* The watcher task finds the pointer's file: EventWatcher::new,
\* watchers.insert, and the pump loop is entered in the same poll.
TaskCreateWatcher(k) ==
    /\ k \in DOMAIN tailers
    /\ tailers[k].state = "polling"
    /\ holder[tailers[k].thread] = 0
    /\ tailers' = [tailers EXCEPT ![k].state = "pumping"]
    /\ holder' = [holder EXCEPT ![tailers[k].thread] = k]
    /\ UNCHANGED <<logs, clients>>

\* GET /api/sessions/{id}/events handled on worker w.
StreamEvents(c, k, w) ==
    /\ holder[w] = 0
    /\ ClientSubscribe(c, k, w)

\* The client's SSE forwarding task is polled on its worker's thread.
SseForward(c) ==
    /\ holder[clients[c].thread] = 0
    /\ ClientRecv(c)

\* ====================================================== Session Discovery
\* Paths are sequences of bytes; these are the ones the model uses.
Slash == 1
DotAgent == 2
DotRalph == 3
NameA == 4
NameB == 5
\* A byte that is not valid UTF-8, and U+FFFD which replaces it.
BadByte == 6
Replacement == 7

\* Width of the hash value in bits, and the digits "{:016x}" prints.
HashBits == 8
HexWidth == 16

\* root.join(name)
JoinPath(dir, name) == dir \o <<Slash, name>>

Root == <<Slash, NameA>>
\* fs::read_dir(root): the directories directly under the root.
Children == {JoinPath(Root, NameB), JoinPath(Root, BadByte)}
ProjectDirs == {Root} \cup Children
MarkerDirs == {JoinPath(d, m) : d \in ProjectDirs, m \in {DotAgent, DotRalph}}

InitDiscovery ==
    /\ markers = {}
    /\ sessions = {}
    /\ idLog = [m \in MarkerDirs |-> {}]
    /\ run = 0

\* Path::to_string_lossy: invalid UTF-8 becomes U+FFFD.
ToStringLossy(path) ==
    [i \in DOMAIN path |-> IF path[i] = BadByte THEN Replacement ELSE path[i]]

\* Hasher::write over the bytes, then finish(): a keyed mixing function.
RECURSIVE HashBytes(_, _)
HashBytes(h, bytes) ==
    IF bytes = <<>> THEN h
    ELSE HashBytes((h * 33 + Head(bytes)) % (2 ^ HashBits), Tail(bytes))

\* format!("{:016x}", n): sixteen hexadecimal digits, zero-padded.
Hex16(n) ==
    [i \in 1..HexWidth |->
        IF HexWidth - i > HashBits \div 4 THEN 0
        ELSE (n \div (16 ^ (HexWidth - i))) % 16]

SessionIdFromPath_RandomState(path) ==
    Hex16(HashBytes(run + 1, ToStringLossy(path)))

\* session_id_from_path: DefaultHasher::new() has fixed keys.
SessionIdFromPath(path) == Hex16(HashBytes(0, ToStringLossy(path)))

\* check_agent_dir / check_ralph_dir, then session_from_agent_dir or the
\* tail of check_ralph_dir: Session { id: session_id_from_path(dir), .. }
CheckMarkerDir(dir) ==
    IF dir \in markers
    THEN {[id |-> SessionIdFromPath(dir), path |-> dir]}
    ELSE {}

\* discover_sessions(root): the root and its immediate children, both
\* marker directories of each.
DiscoverSessions ==
    UNION {CheckMarkerDir(JoinPath(d, DotAgent))
             \cup CheckMarkerDir(JoinPath(d, DotRalph)) : d \in ProjectDirs}

\* An agent writes its first events file into a marker directory.
CreateMarker(m) ==
    /\ m \notin markers
    /\ markers' = markers \cup {m}
    /\ UNCHANGED <<sessions, idLog, run>>

\* main: let sessions = discover_sessions(&root)
Discover ==
    /\ sessions' = DiscoverSessions
    /\ idLog' = [m \in MarkerDirs |->
                   idLog[m] \cup {[run |-> run, id |-> x.id] :
                                     x \in {y \in DiscoverSessions :
                                               y.path = m}}]
    /\ UNCHANGED <<markers, run>>

\* The server process ends and a new one starts.
Restart ==
    /\ run < MaxRuns
    /\ run' = run + 1
    /\ sessions' = {}
    /\ UNCHANGED <<markers, idLog>>

DiscoveryStep ==
    \/ \E m \in MarkerDirs : CreateMarker(m)
    \/ Discover
    \/ Restart

\* =============================================================== HTTP API
\* Session ids are strings of characters: the hexadecimal digits 0..15 and
\* the dash of a uuid.
Dash == 16
UuidLen == 36

\* Uuid::new_v4().to_string(): 8-4-4-4-12 hexadecimal digits.
Uuid(n) ==
    [i \in 1..UuidLen |->
        IF i \in {9, 14, 19, 24} THEN Dash ELSE IF i = UuidLen THEN n ELSE 0]

\* An id a client may send that belongs to no session: the 6-character
\* "abc123" of the handler tests.
ShortId == <<10, 11, 12, 1, 2, 3>>
NoId == <<>>

\* The ids requests are made with: the path-hash id of the root's .agent
\* marker, the random ids (also those no start_session has produced), and
\* the short one.
RootMarker == JoinPath(Root, DotAgent)
StartedIds == {Uuid(n) : n \in 1..MaxSessions}
ApiIds == {SessionIdFromPath(RootMarker)} \cup StartedIds \cup {ShortId}

\* tracing levels, least verbose first; "off" is no subscriber at all.
LogLevels == <<"off", "warn", "info", "debug">>
Rank(level) == CHOOSE i \in DOMAIN LogLevels : LogLevels[i] = level
\* A tracing macro evaluates its arguments only when its level is enabled.
Enabled(level) == Rank(level) <= Rank(logLevel)

\* The startup window of the watcher task: `for attempt in 0..600`.
StartupPolls == 600
\* Polls that find nothing are taken this many at a time.
PollChunk == StartupPolls \div 2

NoTask == [state |-> "none", attempt |-> 0, worker |-> "-"]
NoResponse == [op |-> "none", id |-> NoId, code |-> 0, body |-> "-"]
Response(op, id, code, body) ==
    [op |-> op, id |-> id, code |-> code, body |-> body]

InitApi ==
    /\ serving = FALSE
    /\ logLevel = "off"
    /\ watchers = {}
    /\ streams = [id \in ApiIds |-> 0]
    /\ active = {}
    /\ processes = {}
    /\ child = [id \in StartedIds |-> "none"]
    /\ task = [id \in StartedIds |-> NoTask]
    /\ pointerFile = [id \in StartedIds |-> "absent"]
    /\ blocked = {}
    /\ started = 0
    /\ resp = NoResponse

\* state.sessions.iter().any(|s| s.id == session_id)
SessionExists(id) == \E x \in sessions : x.id = id

\* main: discover_sessions, an EventWatcher and a hub per discovered
\* session whose log resolves (EventWatcher::new may fail), AppState, and
\* the HttpServer; the tracing filter comes from the environment.
Main(level, hubs) ==
    /\ ~serving
    /\ Discover
    /\ hubs \subseteq {x.id : x \in DiscoverSessions}
    /\ serving' = TRUE
    /\ logLevel' = level
    /\ watchers' = hubs
    /\ UNCHANGED <<streams, active, processes, child, task, pointerFile, blocked,
                   started, resp>>

\* A request is handled on a worker thread that is not inside a pump loop.
CanHandle == serving /\ Workers \ blocked # {}

\* POST /api/sessions on worker w. The inputs say whether the config and
\* the prompt file exist and whether Command::spawn succeeds.
ApiStartSession_StoreFirst(w, configOk, promptOk, spawnOk) ==
    /\ serving
    /\ w \in Workers \ blocked
    /\ started < MaxSessions
    /\ LET id == Uuid(started + 1)
       IN /\ processes' = processes \cup {id}
          /\ started' = started + 1
          /\ IF configOk /\ promptOk /\ spawnOk
             THEN /\ active' = active \cup {id}
                  /\ child' = [child EXCEPT ![id] = "running"]
                  /\ task' = [task EXCEPT ![id] =
                                 [state |-> "polling", attempt |-> 0,
                                  worker |-> w]]
                  /\ resp' = Response("start", id, 201, "starting")
             ELSE /\ resp' = Response("start", NoId, 500, "failed_to_spawn")
                  /\ UNCHANGED <<active, child, task>>
    /\ UNCHANGED <<serving, logLevel, watchers, streams, pointerFile, blocked>>

ApiStartSession(w, configOk, promptOk, spawnOk) ==
    /\ serving
    /\ w \in Workers \ blocked
    /\ IF ~configOk
       THEN /\ resp' = Response("start", NoId, 404, "config_not_found")
            /\ UNCHANGED <<active, processes, child, task, started>>
       ELSE IF ~promptOk
       THEN /\ resp' = Response("start", NoId, 404, "prompt_not_found")
            /\ UNCHANGED <<active, processes, child, task, started>>
       ELSE /\ started < MaxSessions
            /\ LET id == Uuid(started + 1)
               IN /\ IF spawnOk
                     THEN /\ started' = started + 1
                          /\ processes' = processes \cup {id}
                          /\ child' = [child EXCEPT ![id] = "running"]
                          /\ active' = active \cup {id}
                          /\ task' = [task EXCEPT ![id] =
                                         [state |-> "polling", attempt |-> 0,
                                          worker |-> w]]
                          /\ resp' = Response("start", id, 201, "starting")
                     ELSE /\ resp' = Response("start", NoId, 500,
                                              "failed_to_spawn")
                          /\ UNCHANGED <<active, processes, child, task,
                                         started>>
    /\ UNCHANGED <<serving, logLevel, watchers, streams, pointerFile, blocked>>

\* The agent process writes the pointer file, then the log it names (or
\* both between two polls of the task).
PointerAppears(id, to) ==
    /\ child[id] = "running"
    /\ \/ pointerFile[id] = "absent" /\ to \in {"dangling", "ready"}
       \/ pointerFile[id] = "dangling" /\ to = "ready"
    /\ pointerFile' = [pointerFile EXCEPT ![id] = to]
    /\ UNCHANGED <<serving, logLevel, watchers, streams, active, processes,
                   child, task, blocked, started, resp>>

\* Polls of the watcher task that find no pointer, or a pointer to a file
\* that does not exist yet, each followed by sleep(100ms).await.
TaskPollMiss(id) ==
    /\ task[id].state = "polling"
    /\ task[id].worker \notin blocked
    /\ task[id].attempt < StartupPolls
    /\ pointerFile[id] # "ready"
    /\ task' = [task EXCEPT ![id].attempt = @ + PollChunk]
    /\ UNCHANGED <<serving, logLevel, watchers, streams, active, processes,
                   child, pointerFile, blocked, started, resp>>

\* A poll finds the log: EventWatcher::new; on Ok the hub is inserted into
\* watchers and the task enters its pump loop, which never awaits; on Err
\* the task ends.
TaskPollHit(id, watchOk) ==
    /\ task[id].state = "polling"
    /\ task[id].worker \notin blocked
    /\ task[id].attempt < StartupPolls
    /\ pointerFile[id] = "ready"
    /\ IF watchOk
       THEN /\ watchers' = watchers \cup {id}
            /\ task' = [task EXCEPT ![id].state = "pumping"]
            /\ blocked' = blocked \cup {task[id].worker}
       ELSE /\ task' = [task EXCEPT ![id].state = "ended"]
            /\ UNCHANGED <<watchers, blocked>>
    /\ UNCHANGED <<serving, logLevel, streams, active, processes, child,
                   pointerFile, started, resp>>

\* The loop has made its 600 polls: events_path is None, `return`.
TaskGiveUp(id) ==
    /\ task[id].state = "polling"
    /\ task[id].worker \notin blocked
    /\ task[id].attempt >= StartupPolls
    /\ task' = [task EXCEPT ![id].state = "ended"]
    /\ UNCHANGED <<serving, logLevel, watchers, streams, active, processes,
                   child, pointerFile, blocked, started, resp>>

\* &session_id[..8] panics when the id has fewer than 8 bytes.
SliceFails(id) == Len(id) < 8

KnownToStream(id) == SessionExists(id) \/ id \in active

\* The first tracing call of stream_events whose level is enabled slices
\* the id: info at the top, warn on both not-found paths.
StreamPanics(id) ==
    /\ SliceFails(id)
    /\ \/ Enabled("info")
       \/ Enabled("warn") /\ ~(KnownToStream(id) /\ id \in watchers)

\* stream_events: 404 unless the id is a discovered or an active session
\* and has a hub.
StreamStatus(id) ==
    IF KnownToStream(id) /\ id \in watchers THEN 200 ELSE 404

RECURSIVE SumOver(_, _)
SumOver(f, S) ==
    IF S = {} THEN 0
    ELSE LET x == CHOOSE y \in S : TRUE IN f[x] + SumOver(f, S \ {x})

\* GET /api/sessions/{id}/events
ApiStreamEvents(id) ==
    /\ CanHandle
    /\ IF StreamPanics(id)
       THEN /\ resp' = Response("stream", id, 0, "panic")
            /\ UNCHANGED streams
       ELSE IF StreamStatus(id) = 200
       THEN /\ SumOver(streams, ApiIds) < MaxStreams
            /\ streams' = [streams EXCEPT ![id] = @ + 1]
            /\ resp' = Response("stream", id, 200, "text/event-stream")
       ELSE /\ resp' = Response("stream", id, 404, "session_not_found")
            /\ UNCHANGED streams
    /\ UNCHANGED <<serving, logLevel, watchers, active, processes, child,
                   task, pointerFile, blocked, started>>

\* Handlers that only look the session up. found: the handler's lookup.
Answer(op, id, found, body) ==
    /\ CanHandle
    /\ resp' = IF found THEN Response(op, id, 200, body)
                ELSE Response(op, id, 404, "session_not_found")
    /\ UNCHANGED <<serving, logLevel, watchers, streams, active, processes,
                   child, task, pointerFile, blocked, started>>

\* GET /api/sessions/{id}/status: discovered sessions, then active ones.
GetSessionStatus(id) ==
    Answer("status", id, SessionExists(id) \/ id \in active, "status")

\* GET /api/sessions/{id}/scratchpad: discovered sessions, then
\* process_manager.get_working_dir.
GetScratchpad(id) ==
    Answer("scratchpad", id, SessionExists(id) \/ id \in processes,
           "scratchpad")

HasRecord_OrDiscovered(id) == id \in processes \/ SessionExists(id)

\* process_manager.is_running / get_working_dir as the handlers see them.
HasRecord(id) == id \in processes

\* POST /api/sessions/{id}/pause
PauseSession(id) == Answer("pause", id, HasRecord(id), "paused")

\* POST /api/sessions/{id}/resume
ResumeSession(id) == Answer("resume", id, HasRecord(id), "resumed")

\* POST /api/sessions/{id}/steer; writeOk: std::fs::write succeeds.
SteerSession(id, writeOk) ==
    /\ CanHandle
    /\ resp' = IF ~HasRecord(id)
                THEN Response("steer", id, 404, "session_not_found")
                ELSE IF writeOk THEN Response("steer", id, 200, "delivered")
                ELSE Response("steer", id, 500, "failed_to_write_steering")
    /\ UNCHANGED <<serving, logLevel, watchers, streams, active, processes,
                   child, task, pointerFile, blocked, started>>

\* POST /api/sessions/{id}/emit; topicOk: is_valid_topic(&body.topic).
EmitEvent(id, topicOk) ==
    /\ CanHandle
    /\ resp' = IF ~HasRecord(id)
                THEN Response("emit", id, 404, "session_not_found")
                ELSE IF topicOk THEN Response("emit", id, 200, "success")
                ELSE Response("emit", id, 400, "invalid_topic")
    /\ UNCHANGED <<serving, logLevel, watchers, streams, active, processes,
                   child, task, pointerFile, blocked, started>>

\* DELETE /api/sessions/{id}: is_running, then terminate, which removes
\* the record, ends the child and returns Ok(true) (it ignores the errors
\* of its signals and waits); then the active session and the hub are
\* removed.
StopSession(id) ==
    /\ CanHandle
    /\ IF ~HasRecord(id)
       THEN /\ resp' = Response("stop", id, 404, "session_not_found")
            /\ UNCHANGED <<watchers, active, processes, child>>
       ELSE /\ processes' = processes \ {id}
            /\ child' = [child EXCEPT ![id] = "terminated"]
            /\ active' = active \ {id}
            /\ watchers' = watchers \ {id}
            /\ resp' = Response("stop", id, 200, "stopped")
    /\ UNCHANGED <<serving, logLevel, streams, task, pointerFile, blocked,
                   started>>

ApiStep ==
    \/ CreateMarker(RootMarker) /\ UNCHANGED apiVars
    \/ \E level \in {"off", "info"},
          hubs \in SUBSET {SessionIdFromPath(RootMarker)} :
          Main(level, hubs)
    \/ (\E w \in Workers, configOk, promptOk, spawnOk \in BOOLEAN :
          started < MaxStarted
            /\ ApiStartSession(w, configOk, promptOk, spawnOk))
          /\ UNCHANGED discVars
    \/ (\E id \in StartedIds, to \in {"dangling", "ready"} :
          PointerAppears(id, to)) /\ UNCHANGED discVars
    \/ (\E id \in StartedIds : TaskPollMiss(id)) /\ UNCHANGED discVars
    \/ (\E id \in StartedIds, watchOk \in BOOLEAN : TaskPollHit(id, watchOk))
          /\ UNCHANGED discVars
    \/ (\E id \in StartedIds : TaskGiveUp(id)) /\ UNCHANGED discVars
    \/ (\E id \in ApiIds : ApiStreamEvents(id)) /\ UNCHANGED discVars
    \/ (\E id \in ApiIds : GetSessionStatus(id)) /\ UNCHANGED discVars
    \/ (\E id \in ApiIds : GetScratchpad(id)) /\ UNCHANGED discVars
    \/ (\E id \in ApiIds : PauseSession(id)) /\ UNCHANGED discVars
    \/ (\E id \in ApiIds : ResumeSession(id)) /\ UNCHANGED discVars
    \/ (\E id \in ApiIds, writeOk \in BOOLEAN : SteerSession(id, writeOk))
          /\ UNCHANGED discVars
    \/ (\E id \in ApiIds, topicOk \in BOOLEAN : EmitEvent(id, topicOk))
          /\ UNCHANGED discVars
    \/ (\E id \in ApiIds : StopSession(id)) /\ UNCHANGED discVars

\* ------------------------------------------------------------ SSE stream
NoStream == [open |-> FALSE, frames |-> <<>>]

InitSse == sse = [s \in Subs |-> NoStream]

\* serde_json::to_string(&event)
Json(ev) == <<"{", ev, "}">>

\* "event: workflow\ndata: {json}\n\n"
Frame(name, data) == [event |-> name, data |-> data]

SseFrames_ReportLag(items) ==
    [i \in 1..Len(items) |->
        IF items[i].lag = 0 THEN Frame("workflow", Json(items[i].ev))
        ELSE Frame("lagged", Json(items[i].lag))]

\* stream.filter_map: Ok(event) becomes one frame, Err(_) (the lag notice
\* of BroadcastStream) becomes nothing and the stream goes on.
SseFrames(items) ==
    LET evs == SelectSeq(items, LAMBDA x : x.lag = 0)
    IN [i \in 1..Len(evs) |-> Frame("workflow", Json(evs[i].ev))]

\* stream_events: watcher.subscribe(), BroadcastStream::new(rx), and the
\* streaming response is opened.
SseSubscribe(s) ==
    /\ Subscribe(s)
    /\ sse' = [sse EXCEPT ![s] = [open |-> TRUE, frames |-> <<>>]]

\* The response body is polled until the channel has nothing more: every
\* item BroadcastStream yields goes through the filter_map.
SsePoll(s) ==
    /\ sse[s].open
    /\ Drain(s)
    /\ sse' = [sse EXCEPT ![s].frames =
                  @ \o SseFrames(DrainOutcome(chan, next[s]).items)]

\* One poll, or the end, of the watcher task of a started session.
TaskStep(id) ==
    \/ TaskPollMiss(id)
    \/ \E watchOk \in BOOLEAN : TaskPollHit(id, watchOk)
    \/ TaskGiveUp(id)

\* Sessions are started and their watcher tasks run; clients ask for the
\* streams of the started sessions.
StartupStep ==
    \/ Main("info", {})
    \/ (\E w \in Workers : ApiStartSession(w, TRUE, TRUE, TRUE))
          /\ UNCHANGED discVars
    \/ (\E id \in StartedIds, to \in {"dangling", "ready"} :
          PointerAppears(id, to)) /\ UNCHANGED discVars
    \/ (\E id \in StartedIds : TaskStep(id)) /\ UNCHANGED discVars
    \/ (\E id \in StartedIds : ApiStreamEvents(id)) /\ UNCHANGED discVars

\* Sessions are started, paused, resumed and stopped.
ControlStep ==
    \/ ~serving /\ CreateMarker(RootMarker) /\ UNCHANGED apiVars
    \/ \E hubs \in SUBSET {SessionIdFromPath(RootMarker)} : Main("info", hubs)
    \/ (\E w \in Workers, configOk, promptOk, spawnOk \in BOOLEAN :
          started < MaxStarted
            /\ ApiStartSession(w, configOk, promptOk, spawnOk))
          /\ UNCHANGED discVars
    \/ (\E id \in StartedIds :
          task[id].state = "polling" /\ PointerAppears(id, "ready"))
          /\ UNCHANGED discVars
    \/ (\E id \in StartedIds : TaskStep(id)) /\ UNCHANGED discVars
    \/ (\E id \in ApiIds \ {ShortId} : PauseSession(id))
          /\ UNCHANGED discVars
    \/ (\E id \in ApiIds \ {ShortId} : ResumeSession(id))
          /\ UNCHANGED discVars
    \/ (\E id \in StartedIds : StopSession(id)) /\ UNCHANGED discVars

\* ============================================================= iterations
\* Option<T>: None is the empty sequence, Some(x) the sequence of x alone.
None == <<>>
Some(x) == <<x>>

\* Timestamp strings: "2024-01-01T00:mm:ssZ" is the pair of mm and ss; a
\* string that is no timestamp is the empty one.
T0 == <<0, 0>>
T60 == <<1, 0>>
NotATime == <<>>

\* One line of the file. text says whether the line is a JSON object, some
\* other text or blank; key is the name of the member that holds the event
\* name: "type" as the agent loop of this repository writes it, or "topic".
JsonLine(key, name, iteration, hat, timestamp) ==
    [text |-> "json", key |-> key, name |-> name, iteration |-> iteration,
     hat |-> hat, timestamp |-> timestamp]
GarbageLine == [JsonLine("type", "-", None, None, None) EXCEPT !.text = "garbage"]
BlankLine == [JsonLine("type", "-", None, None, None) EXCEPT !.text = "blank"]

StartedLines ==
    {JsonLine("type", "iteration.started", Some(n), Some("planner"), Some(T0)) :
        n \in 1..2}
    \cup {JsonLine("type", "iteration.started", None, None, Some(T0)),
          JsonLine("type", "iteration.started", Some(1), None, None),
          JsonLine("type", "iteration.started", Some(1), None, Some(NotATime))}
CompletedLines ==
    {JsonLine("type", "iteration.completed", Some(n), None, Some(T60)) :
        n \in 1..2}
    \cup {JsonLine("type", "iteration.completed", None, None, Some(T60)),
          JsonLine("type", "iteration.completed", Some(1), None, None),
          JsonLine("type", "iteration.completed", Some(1), None, Some(NotATime))}
\* Lines that name the event under "topic".
TopicLines ==
    {JsonLine("topic", "iteration.started", Some(1), None, Some(T0)),
     JsonLine("topic", "iteration.completed", Some(1), None, Some(T60))}
ItLines ==
    StartedLines \cup CompletedLines \cup TopicLines
    \cup {JsonLine("type", "other.event", None, None, None), GarbageLine,
          BlankLine}

\* serde_json::from_str::<Event>(&line): `type` is the one member without
\* a default, so a line without it, like one that is no JSON, is an Err.
FromStr(line) ==
    IF line.text = "json" /\ line.key = "type"
    THEN Some([event_type |-> line.name, iteration |-> line.iteration,
               hat |-> line.hat, timestamp |-> line.timestamp])
    ELSE None

\* str::parse::<DateTime<Utc>>, as seconds.
ParseTime(ts) == IF Len(ts) = 2 THEN Some(ts[1] * 60 + ts[2]) ELSE None

\* calculate_duration
CalculateDuration(start_s, end_s) ==
    LET start_time == ParseTime(start_s)
        end_time == ParseTime(end_s)
    IN IF start_time = None \/ end_time = None THEN None
       ELSE IF end_time[1] > start_time[1]
            THEN Some(end_time[1] - start_time[1])
            ELSE Some(0)

IterationItem(number, hat, started_at, duration_secs) ==
    [number |-> number, hat |-> hat, started_at |-> started_at,
     duration_secs |-> duration_secs]
\* The item of an iteration for which no end event was seen.
OpenItem(cur) == IterationItem(cur.number, cur.hat, cur.started_at, None)

\* parse_iterations: the loop over the lines from line i on, with
\* current_iteration and the items pushed so far, and the close of the
\* last iteration after the loop.
RECURSIVE ParseLoop(_, _, _, _)
ParseLoop(lines, i, current_iteration, iterations) ==
    IF i > Len(lines)
    THEN IF current_iteration # None
         THEN Append(iterations, OpenItem(current_iteration[1]))
         ELSE iterations
    ELSE IF lines[i].text = "blank" \/ FromStr(lines[i]) = None
    THEN ParseLoop(lines, i + 1, current_iteration, iterations)
    ELSE LET event == FromStr(lines[i])[1]
             fields == event.iteration # None /\ event.timestamp # None
         IN IF event.event_type = "iteration.started" /\ fields
            THEN ParseLoop(lines, i + 1,
                    Some([number |-> event.iteration[1],
                          started_at |-> event.timestamp[1],
                          hat |-> event.hat]),
                    IF current_iteration # None
                    THEN Append(iterations, OpenItem(current_iteration[1]))
                    ELSE iterations)
            ELSE IF event.event_type = "iteration.completed" /\ fields
            THEN ParseLoop(lines, i + 1, None,
                    IF current_iteration # None
                       /\ current_iteration[1].number = event.iteration[1]
                    THEN Append(iterations,
                            IterationItem(event.iteration[1],
                               current_iteration[1].hat,
                               current_iteration[1].started_at,
                               CalculateDuration(
                                  current_iteration[1].started_at,
                                  event.timestamp[1])))
                    ELSE iterations)
            ELSE ParseLoop(lines, i + 1, current_iteration, iterations)

ParseIterations(lines) == ParseLoop(lines, 1, None, <<>>)

NotCalled == [called |-> FALSE, iterations |-> <<>>, total |-> 0]

InitIterations ==
    /\ itLog = <<>>
    /\ itResult = NotCalled

\* The agent loop, or anyone else, appends a line to the events file.
ItAppend(line) ==
    /\ Len(itLog) < MaxItLines
    /\ itLog' = Append(itLog, line)
    /\ itResult' = NotCalled

\* get_iterations for a session whose events file is found and opens.
GetIterations ==
    /\ ~itResult.called
    /\ itResult' = [called |-> TRUE, iterations |-> ParseIterations(itLog),
                    total |-> Len(ParseIterations(itLog))]
    /\ UNCHANGED itLog

IterationsStep ==
    \/ \E line \in ItLines : ItAppend(line)
    \/ GetIterations

\* ============================================================ merge queue
LoopIds == {"a", "b"}

\* Timestamp strings of the merge queue, ordered as strings are: the empty
\* string before every other, "..1" before "..2".
Stamp(n) == <<n>>
StrLess(a, b) == IF a = <<>> THEN b # <<>> ELSE b # <<>> /\ a[1] < b[1]

\* One line of merge-queue.jsonl; text and key as for the events file.
MergeLine(name, id, timestamp) ==
    [text |-> "json", key |-> "type", name |-> name, id |-> id,
     timestamp |-> timestamp]
MqGarbage == [MergeLine("-", None, None) EXCEPT !.text = "garbage"]
MqBlank == [MergeLine("-", None, None) EXCEPT !.text = "blank"]
MqLines ==
    {MergeLine("loop.queued", id, ts) :
        id \in {None} \cup {Some(x) : x \in LoopIds},
        ts \in {None, Some(Stamp(1))}}
    \cup {MergeLine("loop.merged", Some(x), Some(Stamp(2))) : x \in LoopIds}
    \cup {MergeLine("loop.merge_failed", Some(x), Some(Stamp(2))) :
             x \in LoopIds}
    \cup {MergeLine("loop.merged", None, Some(Stamp(2))),
          MergeLine("loop.merged", Some("a"), None),
          MergeLine("other.event", Some("a"), None), MqGarbage, MqBlank}

\* serde_json::from_str::<MergeEvent>(&line)
MergeFromStr(line) ==
    IF line.text = "json" /\ line.key = "type"
    THEN Some([event_type |-> line.name, id |-> line.id,
               timestamp |-> line.timestamp])
    ELSE None

\* Option<String>::unwrap_or_default()
UnwrapOrDefault(opt) == IF opt = None THEN <<>> ELSE opt[1]

MergeQueueItem(id, status, queued_at, merged_at) ==
    [id |-> id, status |-> status, queued_at |-> queued_at,
     merged_at |-> merged_at]

\* items.insert(id, item)
Insert(items, id, item) ==
    [x \in DOMAIN items \cup {id} |-> IF x = id THEN item ELSE items[x]]

SetStatus_Upsert(items, id, status, timestamp) ==
    Insert(items, id, MergeQueueItem(id, status, <<>>, timestamp))

\* if let Some(item) = items.get_mut(&id) { item.status = ..;
\* item.merged_at = event.timestamp }
SetStatus(items, id, status, timestamp) ==
    IF id \in DOMAIN items
    THEN [items EXCEPT ![id].status = status, ![id].merged_at = timestamp]
    ELSE items

\* parse_merge_queue: the loop over the lines from line i on.
RECURSIVE MergeLoop(_, _, _)
MergeLoop(lines, i, items) ==
    IF i > Len(lines) THEN items
    ELSE IF lines[i].text = "blank" \/ MergeFromStr(lines[i]) = None
    THEN MergeLoop(lines, i + 1, items)
    ELSE LET event == MergeFromStr(lines[i])[1]
         IN IF event.id = None THEN MergeLoop(lines, i + 1, items)
            ELSE IF event.event_type = "loop.queued"
            THEN MergeLoop(lines, i + 1,
                    Insert(items, event.id[1],
                       MergeQueueItem(event.id[1], "pending",
                          UnwrapOrDefault(event.timestamp), None)))
            ELSE IF event.event_type = "loop.merged"
            THEN MergeLoop(lines, i + 1,
                    SetStatus(items, event.id[1], "completed",
                              event.timestamp))
            ELSE IF event.event_type = "loop.merge_failed"
            THEN MergeLoop(lines, i + 1,
                    SetStatus(items, event.id[1], "failed", event.timestamp))
            ELSE MergeLoop(lines, i + 1, items)

\* The HashMap after the loop.
MergeItems(lines) == MergeLoop(lines, 1, <<>>)

PendingKey(item) == item.queued_at
\* merged_at.as_ref().unwrap_or(&queued_at)
CompletedKey(item) ==
    IF item.merged_at = None THEN item.queued_at ELSE item.merged_at[1]

\* into_values() yields the items in no particular order and sort_by is
\* stable: every order of S with the keys descending is a possible Vec.
SortedDescending(S, Key(_)) ==
    {q \in [1..Cardinality(S) -> S] :
        /\ \A i, j \in DOMAIN q : i # j => q[i] # q[j]
        /\ \A i, j \in DOMAIN q : i < j => ~StrLess(Key(q[i]), Key(q[j]))}

MqNotCalled == [called |-> FALSE, pending |-> <<>>, completed |-> <<>>]

InitMergeQueue ==
    /\ mqLog = <<>>
    /\ mqResult = MqNotCalled

\* A line is appended to merge-queue.jsonl.
MqAppend(line) ==
    /\ Len(mqLog) < MaxMqLines
    /\ mqLog' = Append(mqLog, line)
    /\ mqResult' = MqNotCalled

\* get_merge_queue: parse_merge_queue of the file (an empty queue when
\* there is no file), split and sorted.
GetMergeQueue ==
    /\ ~mqResult.called
    /\ LET items == MergeItems(mqLog)
           all == {items[id] : id \in DOMAIN items}
       IN \E pending \in SortedDescending(
                 {item \in all : item.status = "pending"}, PendingKey),
             completed \in SortedDescending(
                 {item \in all : item.status # "pending"}, CompletedKey) :
             mqResult' = [called |-> TRUE, pending |-> pending,
                          completed |-> completed]
    /\ UNCHANGED mqLog

MergeQueueStep ==
    \/ \E line \in MqLines : MqAppend(line)
    \/ GetMergeQueue

\* ================================================================== robot
RobotSessions == {"s1"}
QuestionIds == 1..MaxQuestions
NoQuestion == 0
NoRequest == [question_id |-> NoQuestion, found |-> NoQuestion, session_id |-> "-"]

InitRobot ==
    /\ pending_questions = [sid \in RobotSessions |-> NoQuestion]
    /\ asked = 0
    /\ rpc = [t \in Threads |-> "idle"]
    /\ rq = [t \in Threads |-> NoRequest]
    /\ posts = 0
    /\ responses = <<>>
    /\ acks = [q \in QuestionIds |-> <<>>]
    /\ removals = {}

\* scan_for_questions finds a human.interact event of the session: a
\* question with a new id replaces the session's pending one.
AddQuestion(sid) ==
    /\ asked < MaxQuestions
    /\ asked' = asked + 1
    /\ pending_questions' = [pending_questions EXCEPT ![sid] = asked + 1]
    /\ UNCHANGED <<rpc, rq, posts, responses, acks, removals>>

\* post_response, up to the release of the lock get_all_questions took:
\* the question is looked for by its id in a copy of the map.
PostFind(t, question_id) ==
    /\ rpc[t] = "idle"
    /\ posts < MaxPosts
    /\ posts' = posts + 1
    /\ IF \E sid \in RobotSessions : pending_questions[sid] = question_id
       THEN /\ rpc' = [rpc EXCEPT ![t] = "found"]
            /\ rq' = [rq EXCEPT ![t] =
                         [question_id |-> question_id, found |-> question_id,
                          session_id |-> CHOOSE sid \in RobotSessions :
                                 pending_questions[sid] = question_id]]
            /\ UNCHANGED acks
       ELSE /\ acks' = [acks EXCEPT ![question_id] =
                           Append(@, "question_not_found")]
            /\ UNCHANGED <<rpc, rq>>
    /\ UNCHANGED <<pending_questions, asked, responses, removals>>

\* append_event of the human.response event; on Err the handler answers
\* 500 and the question stays.
PostAppend(t, ok) ==
    /\ rpc[t] = "found"
    /\ IF ok
       THEN /\ responses' = Append(responses, rq[t].question_id)
            /\ rpc' = [rpc EXCEPT ![t] = "appended"]
            /\ UNCHANGED <<rq, acks>>
       ELSE /\ acks' = [acks EXCEPT ![rq[t].question_id] =
                           Append(@, "failed to write event")]
            /\ rpc' = [rpc EXCEPT ![t] = "idle"]
            /\ rq' = [rq EXCEPT ![t] = NoRequest]
            /\ UNCHANGED responses
    /\ UNCHANGED <<pending_questions, asked, posts, removals>>

\* state.remove_question(&question.session_id), whatever question the
\* session has by now, and the 200 answer.
PostRemove(t) ==
    /\ rpc[t] = "appended"
    /\ pending_questions' =
          [pending_questions EXCEPT ![rq[t].session_id] = NoQuestion]
    /\ removals' = removals \cup
          {[answered |-> rq[t].question_id, removed |-> q] :
              q \in {pending_questions[rq[t].session_id]} \ {NoQuestion}}
    /\ acks' = [acks EXCEPT ![rq[t].question_id] = Append(@, "success")]
    /\ rpc' = [rpc EXCEPT ![t] = "idle"]
    /\ rq' = [rq EXCEPT ![t] = NoRequest]
    /\ UNCHANGED <<asked, posts, responses>>

RobotStep ==
    \/ \E sid \in RobotSessions : AddQuestion(sid)
    \/ \E t \in Threads, q \in QuestionIds : PostFind(t, q)
    \/ \E t \in Threads, ok \in BOOLEAN : PostAppend(t, ok)
    \/ \E t \in Threads : PostRemove(t)

\* ========================================================== stop and pump
\* What one wait_for_events call of a pump loop comes back with: Some
\* after a broadcast, None after a timeout, a log read error or a watcher
\* error.
WaitOutcomes == {"events", "timeout", "read_error", "watcher_error"}

NoPump == [seen |-> {}, afterStop |-> FALSE]

InitStop ==
    /\ stopping = [w \in Workers |-> NoId]
    /\ stopLog = [id \in StartedIds |-> <<>>]
    /\ pump = [id \in StartedIds |-> NoPump]

\* A worker thread that is neither inside a pump loop nor inside a
\* stop_session.
Free(w) == w \notin blocked /\ stopping[w] = NoId

StopAnswer(code, lost) == [code |-> code, lost |-> lost]
Stopped(id) == \E i \in DOMAIN stopLog[id] : stopLog[id][i].code = 200

\* stop_session on worker w, up to its is_running check: 404 when the id
\* has no ProcessRecord.
StopCheck(w, id) ==
    /\ serving
    /\ Free(w)
    /\ Len(stopLog[id])
          + Cardinality({v \in Workers : stopping[v] = id}) < MaxStops
    /\ IF HasRecord(id)
       THEN /\ stopping' = [stopping EXCEPT ![w] = id]
            /\ UNCHANGED <<resp, stopLog>>
       ELSE /\ resp' = Response("stop", id, 404, "session_not_found")
            /\ stopLog' = [stopLog EXCEPT ![id] =
                              Append(@, StopAnswer(404, FALSE))]
            /\ UNCHANGED stopping
    /\ UNCHANGED <<serving, logLevel, watchers, streams, active, processes,
                   child, task, pointerFile, blocked, started, pump>>

\* The rest of stop_session: terminate, which answers Ok(true) to the
\* caller that finds the record and removes it, and Ok(false) to one that
\* comes after; on Ok(true) the active session and the hub are removed and
\* the answer is 'stopped', on Ok(false) it is 404.
StopTerminate(w) ==
    /\ stopping[w] # NoId
    /\ LET id == stopping[w]
       IN IF HasRecord(id)
          THEN /\ processes' = processes \ {id}
               /\ child' = [child EXCEPT ![id] = "terminated"]
               /\ active' = active \ {id}
               /\ watchers' = watchers \ {id}
               /\ resp' = Response("stop", id, 200, "stopped")
               /\ stopLog' = [stopLog EXCEPT ![id] =
                                 Append(@, StopAnswer(200, FALSE))]
          ELSE /\ resp' = Response("stop", id, 404, "session_not_found")
               /\ stopLog' = [stopLog EXCEPT ![id] =
                                 Append(@, StopAnswer(404, TRUE))]
               /\ UNCHANGED <<processes, child, active, watchers>>
    /\ stopping' = [stopping EXCEPT ![w] = NoId]
    /\ UNCHANGED <<serving, logLevel, streams, task, pointerFile, blocked,
                   started, pump>>

PumpWait_BreakOnNone(id, outcome) ==
    /\ task[id].state = "pumping"
    /\ pump' = [pump EXCEPT ![id] =
                   [seen |-> @.seen \cup {outcome},
                    afterStop |-> @.afterStop \/ child[id] = "terminated"]]
    /\ IF outcome = "events"
       THEN UNCHANGED <<task, blocked>>
       ELSE /\ task' = [task EXCEPT ![id].state = "ended"]
            /\ blocked' = blocked \ {task[id].worker}
    /\ UNCHANGED <<serving, logLevel, watchers, streams, active, processes,
                   child, pointerFile, started, resp, stopping, stopLog>>

\* One round of `loop { watcher.wait_for_events(60 s) }`: whatever the
\* call returns, the loop goes round again.
PumpWait(id, outcome) ==
    /\ task[id].state = "pumping"
    /\ pump' = [pump EXCEPT ![id] =
                   [seen |-> @.seen \cup {outcome},
                    afterStop |-> @.afterStop \/ child[id] = "terminated"]]
    /\ UNCHANGED <<apiVars, stopping, stopLog>>

\* Sessions are started and stopped, by several clients at once, while
\* their watcher tasks run; other requests are made for them.
StopStep ==
    \/ Main("info", {}) /\ UNCHANGED stopVars
    \/ (\E w \in Workers :
          started < MaxStarted /\ Free(w)
            /\ ApiStartSession(w, TRUE, TRUE, TRUE))
          /\ UNCHANGED <<discVars, stopVars>>
    \/ (\E id \in StartedIds :
          task[id].state = "polling" /\ PointerAppears(id, "ready"))
          /\ UNCHANGED <<discVars, stopVars>>
    \/ (\E id \in StartedIds :
          /\ task[id].state = "polling"
          /\ stopping[task[id].worker] = NoId
          /\ TaskStep(id))
          /\ UNCHANGED <<discVars, stopVars>>
    \/ (\E w \in Workers, id \in StartedIds : StopCheck(w, id))
          /\ UNCHANGED discVars
    \/ (\E w \in Workers : StopTerminate(w)) /\ UNCHANGED discVars
    \/ (\E id \in StartedIds :
          /\ \E w \in Workers : Free(w)
          /\ \/ ApiStreamEvents(id)
             \/ PauseSession(id)
             \/ ResumeSession(id)
             \/ SteerSession(id, TRUE)
             \/ EmitEvent(id, TRUE))
          /\ UNCHANGED <<discVars, stopVars>>

\* Sessions are started and stopped while their watcher tasks and pump
\* loops run.
PumpLoopStep ==
    \/ Main("info", {}) /\ UNCHANGED stopVars
    \/ (\E w \in Workers :
          started < MaxStarted /\ ApiStartSession(w, TRUE, TRUE, TRUE))
          /\ UNCHANGED <<discVars, stopVars>>
    \/ (\E id \in StartedIds :
          task[id].state = "polling" /\ PointerAppears(id, "ready"))
          /\ UNCHANGED <<discVars, stopVars>>
    \/ (\E id \in StartedIds : TaskStep(id))
          /\ UNCHANGED <<discVars, stopVars>>
    \/ (\E id \in StartedIds, outcome \in WaitOutcomes : PumpWait(id, outcome))
          /\ UNCHANGED discVars
    \/ (\E id \in StartedIds : StopSession(id))
          /\ UNCHANGED <<discVars, stopVars>>

\* ========================================================= specifications
Init ==
    InitTailer /\ InitRegistry /\ InitResolve /\ InitSessions /\ InitClock
    /\ InitDiscovery /\ InitApi /\ InitSse /\ InitIterations
    /\ InitMergeQueue /\ InitRobot /\ InitStop

Next ==
    \/ (\E ok \in BOOLEAN : Len(file) < MaxLines /\ AppendLines(1, ok))
          /\ UNCHANGED <<registryVars, resolveVars, sessVars, clockVars, discVars, apiVars, sseVars, lateVars>>
    \/ (\E kind \in NotifyKinds : Notify(kind)) /\ UNCHANGED <<registryVars, resolveVars, sessVars, clockVars, discVars, apiVars, sseVars, lateVars>>
    \/ TailerStep /\ UNCHANGED <<registryVars, resolveVars, sessVars, clockVars, discVars, apiVars, sseVars, lateVars>>
    \/ Subscribe(1) /\ UNCHANGED <<registryVars, resolveVars, sessVars, clockVars, discVars, apiVars, sseVars, lateVars>>
    \/ Detach(1) /\ UNCHANGED <<registryVars, resolveVars, sessVars, clockVars, discVars, apiVars, sseVars, lateVars>>
    \/ Recv(1) /\ UNCHANGED <<registryVars, resolveVars, sessVars, clockVars, discVars, apiVars, sseVars, lateVars>>

Spec == Init /\ [][Next]_vars

\* One wait_for_events call after another, under a clock.
NextWait ==
    \/ (\E ok \in BOOLEAN : Len(file) < MaxLines /\ AppendLines(1, ok))
          /\ UNCHANGED <<registryVars, resolveVars, sessVars, clockVars, discVars, apiVars, sseVars, lateVars>>
    \/ (\E kind \in NotifyKinds : Notify(kind))
          /\ UNCHANGED <<registryVars, resolveVars, sessVars, clockVars, discVars, apiVars, sseVars, lateVars>>
    \/ (\E timeout \in 0..MaxTicks : CallWaitForEvents(timeout))
          /\ UNCHANGED <<registryVars, resolveVars, sessVars, discVars, apiVars, sseVars, lateVars>>
    \/ Tick /\ UNCHANGED <<registryVars, resolveVars, sessVars, discVars, apiVars, sseVars, lateVars>>
    \/ DeadlineReached /\ UNCHANGED <<registryVars, resolveVars, sessVars, discVars, apiVars, sseVars, lateVars>>
    \/ Wake /\ UNCHANGED <<registryVars, resolveVars, sessVars, discVars, apiVars, sseVars, lateVars>>
    \/ Subscribe(1) /\ UNCHANGED <<registryVars, resolveVars, sessVars, clockVars, discVars, apiVars, sseVars, lateVars>>

SpecWait == Init /\ [][NextWait]_vars

NextDiscovery ==
    DiscoveryStep /\ UNCHANGED <<tailerVars, registryVars, resolveVars,
                                 sessVars, clockVars, apiVars, sseVars, lateVars>>

NextApi ==
    ApiStep /\ UNCHANGED <<tailerVars, registryVars, resolveVars, sessVars,
                           clockVars, sseVars, lateVars>>

SpecApi == Init /\ [][NextApi]_vars

NextControl ==
    ControlStep /\ UNCHANGED <<tailerVars, registryVars, resolveVars,
                               sessVars, clockVars, sseVars, lateVars>>

SpecControl == Init /\ [][NextControl]_vars

NextStartup ==
    StartupStep /\ UNCHANGED <<tailerVars, registryVars, resolveVars,
                               sessVars, clockVars, sseVars, lateVars>>

SpecStartup == Init /\ [][NextStartup]_vars

\* A watcher task whose worker thread is not inside a pump loop is polled
\* again: its sleep ends and the executor runs it.
StartupFairness == \A id \in StartedIds : WF_apiVars(TaskStep(id))

SpecStartupFair == SpecStartup /\ StartupFairness

SpecDiscovery == Init /\ [][NextDiscovery]_vars

\* The pump's normal cycle: wait, wake on a change, read, broadcast.
PumpStep == StartWait \/ Timeout \/ WakeRead

NextFanout ==
    \/ (\E ok \in BOOLEAN : Len(file) < MaxLines /\ AppendLines(1, ok))
          /\ UNCHANGED <<registryVars, resolveVars, sessVars, clockVars, discVars, apiVars, sseVars, lateVars>>
    \/ Notify("Modify") /\ UNCHANGED <<registryVars, resolveVars, sessVars, clockVars, discVars, apiVars, sseVars, lateVars>>
    \/ PumpStep /\ UNCHANGED <<registryVars, resolveVars, sessVars, clockVars, discVars, apiVars, sseVars, lateVars>>
    \/ (\E s \in Subs : Subscribe(s)) /\ UNCHANGED <<registryVars, resolveVars, sessVars, clockVars, discVars, apiVars, sseVars, lateVars>>
    \/ (\E s \in Subs : Detach(s)) /\ UNCHANGED <<registryVars, resolveVars, sessVars, clockVars, discVars, apiVars, sseVars, lateVars>>
    \/ (\E s \in Subs : Recv(s)) /\ UNCHANGED <<registryVars, resolveVars, sessVars, clockVars, discVars, apiVars, sseVars, lateVars>>

SpecFanout == Init /\ [][NextFanout]_vars

NextLag ==
    \/ (Len(file) < MaxBulk * (CHANNEL_CAPACITY + 1)
          /\ AppendLines(CHANNEL_CAPACITY + 1, TRUE)) /\ UNCHANGED <<registryVars, resolveVars, sessVars, clockVars, discVars, apiVars, sseVars, lateVars>>
    \/ Notify("Modify") /\ UNCHANGED <<registryVars, resolveVars, sessVars, clockVars, discVars, apiVars, sseVars, lateVars>>
    \/ PumpStep /\ UNCHANGED <<registryVars, resolveVars, sessVars, clockVars, discVars, apiVars, sseVars, lateVars>>
    \/ (\E s \in Subs : Subscribe(s)) /\ UNCHANGED <<registryVars, resolveVars, sessVars, clockVars, discVars, apiVars, sseVars, lateVars>>
    \/ (\E s \in Subs : Drain(s)) /\ UNCHANGED <<registryVars, resolveVars, sessVars, clockVars, discVars, apiVars, sseVars, lateVars>>

SpecLag == Init /\ [][NextLag]_vars

\* An SSE client on a hub: bulk appends that make it lag, then single
\* lines; a notification is delivered when there is something to read.
NextSse ==
    \/ (Len(file) < MaxBulk * (CHANNEL_CAPACITY + 1)
          /\ AppendLines(CHANNEL_CAPACITY + 1, TRUE))
          /\ UNCHANGED <<registryVars, resolveVars, sessVars, clockVars,
                         discVars, apiVars, sseVars, lateVars>>
    \/ (Len(file) >= MaxBulk * (CHANNEL_CAPACITY + 1)
          /\ Len(file) < MaxBulk * (CHANNEL_CAPACITY + 1) + MaxLines
          /\ AppendLines(1, TRUE))
          /\ UNCHANGED <<registryVars, resolveVars, sessVars, clockVars,
                         discVars, apiVars, sseVars, lateVars>>
    \/ (rx = <<>> /\ FileBytes(file) > position /\ Notify("Modify"))
          /\ UNCHANGED <<registryVars, resolveVars, sessVars, clockVars,
                         discVars, apiVars, sseVars, lateVars>>
    \/ (StartWait \/ WakeRead)
          /\ UNCHANGED <<registryVars, resolveVars, sessVars, clockVars,
                         discVars, apiVars, sseVars, lateVars>>
    \/ SseSubscribe(1)
          /\ UNCHANGED <<registryVars, resolveVars, sessVars, clockVars,
                         discVars, apiVars, lateVars>>
    \/ SsePoll(1)
          /\ UNCHANGED <<registryVars, resolveVars, sessVars, clockVars,
                         discVars, apiVars, lateVars>>

SpecSse == Init /\ [][NextSse]_vars

NextRegistry ==
    RegistryStep /\ UNCHANGED <<tailerVars, resolveVars, sessVars, clockVars, discVars, apiVars, sseVars, lateVars>>

SpecRegistry == Init /\ [][NextRegistry]_vars

NextResolve ==
    ResolveStep /\ UNCHANGED <<tailerVars, registryVars, sessVars, clockVars, discVars, apiVars, sseVars, lateVars>>

SpecResolve == Init /\ [][NextResolve]_vars

\* Two watchers driven directly, as in test_multiple_sessions_isolated.
IsolationStep ==
    \/ \E p \in LogPaths : LogAppend(p)
    \/ \E k \in 1..MaxTailers : CallWait(k)
    \/ \E c \in Clients, k \in 1..MaxTailers : ClientSubscribe(c, k, "w1")
    \/ \E c \in Clients : ClientRecv(c)

NextIsolation ==
    IsolationStep /\ UNCHANGED <<tailerVars, registryVars, resolveVars, clockVars, discVars, apiVars, sseVars, lateVars>>

SpecIsolation == Init /\ [][NextIsolation]_vars

\* The server: pump tasks and SSE tasks under the executors.
SessionsStep ==
    \/ \E p \in LogPaths : LogAppend(p)
    \/ \E k \in 1..MaxTailers : Schedule(k)
    \/ \E k \in 1..MaxTailers : PumpLoop(k)
    \/ \E dir \in Dirs, w \in Workers : StartSession(dir, w)
    \/ \E k \in 1..MaxTailers : TaskCreateWatcher(k)
    \/ \E k \in 1..MaxTailers, w \in Workers : StreamEvents("c1", k, w)
    \/ SseForward("c1")

NextSessions ==
    SessionsStep /\ UNCHANGED <<tailerVars, registryVars, resolveVars, clockVars, discVars, apiVars, sseVars, lateVars>>

SpecSessions == Init /\ [][NextSessions]_vars

\* Every executor polls a task that is ready when its thread is free, a
\* running pump loop goes on, and a client's stream is polled when its
\* thread is free.
SessionsFairness ==
    /\ \A k \in 1..MaxTailers :
          /\ WF_sessVars(Schedule(k))
          /\ WF_sessVars(PumpLoop(k))
          /\ WF_sessVars(TaskCreateWatcher(k))
    /\ WF_sessVars(SseForward("c1"))

SpecSessionsFair == SpecSessions /\ SessionsFairness

NextIterations ==
    IterationsStep /\ UNCHANGED <<tailerVars, registryVars, resolveVars,
                                  sessVars, clockVars, discVars, apiVars,
                                  sseVars, mqVars, robotVars, stopVars>>

SpecIterations == Init /\ [][NextIterations]_vars

NextMergeQueue ==
    MergeQueueStep /\ UNCHANGED <<tailerVars, registryVars, resolveVars,
                                  sessVars, clockVars, discVars, apiVars,
                                  sseVars, iterVars, robotVars, stopVars>>

SpecMergeQueue == Init /\ [][NextMergeQueue]_vars

NextRobot ==
    RobotStep /\ UNCHANGED <<tailerVars, registryVars, resolveVars, sessVars,
                             clockVars, discVars, apiVars, sseVars, iterVars,
                             mqVars, stopVars>>

SpecRobot == Init /\ [][NextRobot]_vars

NextPump ==
    PumpLoopStep /\ UNCHANGED <<tailerVars, registryVars, resolveVars,
                                sessVars, clockVars, sseVars, iterVars,
                                mqVars, robotVars>>

SpecPump == Init /\ [][NextPump]_vars

NextStop ==
    StopStep /\ UNCHANGED <<tailerVars, registryVars, resolveVars, sessVars,
                            clockVars, sseVars, iterVars, mqVars, robotVars>>

SpecStop == Init /\ [][NextStop]_vars

\* ============================================================= properties
Events(items) ==
    LET evs == SelectSeq(items, LAMBDA x : x.lag = 0)
    IN [i \in 1..Len(evs) |-> evs[i].ev]

IsPrefix(a, b) == Len(a) <= Len(b) /\ a = SubSeq(b, 1, Len(a))

NoDuplicates(seq) == \A i, j \in DOMAIN seq : i # j => seq[i] # seq[j]

StrictlyIncreasing(seq) == \A i \in 1..(Len(seq) - 1) : seq[i] < seq[i + 1]

\* C1 (No re-delivery): the tailer hands every event of its log to the hub
\* at most once, and a step that leaves the cursor where it was (a read
\* that found nothing new, a timeout, an ignored notification) broadcasts
\* nothing.
C1_NoRedelivery ==
    /\ [](NoDuplicates(published))
    /\ [][position' = position => published' = published]_vars

\* Events were broadcast, and a later read at the same cursor found nothing.
C1_Witness == published # <<>> /\ spurious /\ pc = "waiting"

\* C2 (Cursor monotonicity): position() never decreases, and after every
\* successful read it equals the byte length the file had at that read.
C2_CursorMonotonic ==
    /\ [](Position = lastReadLen)
    /\ [][Position' >= Position]_vars

\* A read has advanced the cursor and the file has grown since.
C2_Witness == ret.some /\ Position > 0 /\ FileBytes(file) > Position

\* C3 (Append order): what a subscriber has received is a contiguous run,
\* in the same order and without duplicates, of the events the Log Reader
\* returned to the tailer's read cycles, which are in file append order.
C3_AppendOrder ==
    /\ StrictlyIncreasing(returned)
    /\ \A s \in Attached :
         LET e == Events(got[s])
         IN e = SubSeq(returned, start[s] + 1, start[s] + Len(e))

\* A subscriber that attached after a first read cycle has received two
\* later events.
C3_Witness == \E s \in Attached : start[s] >= 1 /\ Len(Events(got[s])) >= 2

\* C4 (Fan-out independence): every attached subscriber has received a
\* prefix of the events broadcast since it attached, all of them once it
\* has caught up, whatever the other subscribers did (detaching included);
\* two subscribers attached at the same point have received the same
\* events in the same order, up to how far each has read.
C4_FanoutIndependence ==
    \A s \in Attached :
        LET e == Events(got[s])
            since == SubSeq(published, start[s] + 1, Len(published))
        IN /\ IsPrefix(e, since)
           /\ next[s] = Len(chan) => e = since
           /\ \A t \in Attached :
                 start[t] = start[s] =>
                    IsPrefix(e, Events(got[t])) \/ IsPrefix(Events(got[t]), e)

\* One subscriber has detached and the other has gone on receiving.
C4_Witness ==
    /\ subState[1] = "dropped"
    /\ subState[2] = "attached"
    /\ Len(got[2]) >= 2
    /\ next[2] = Len(chan)

\* C5 (Lag at capacity): a subscriber that has read nothing while more than
\* CHANNEL_CAPACITY events were published gets a lag notice from its next
\* read.
C5_LagAtCapacity ==
    \A s \in Attached :
        (got[s] = <<>> /\ Len(chan) - next[s] > CHANNEL_CAPACITY)
            => RecvOutcome(chan, next[s]).kind = "lagged"

RECURSIVE SumLag(_, _)
SumLag(items, idx) ==
    IF idx = {} THEN 0
    ELSE LET i == CHOOSE x \in idx : TRUE
         IN items[i].lag + SumLag(items, idx \ {i})

\* Channel position reached after the first k of items, from position from.
PosAfter(items, from, k) ==
    from + Cardinality({i \in 1..k : items[i].lag = 0})
         + SumLag(items, {i \in 1..k : items[i].lag > 0})

\* What a subscriber has received matches the channel: every event is the
\* one stored at its position, a lag notice stands for exactly the oldest
\* unread positions it skips and is followed by the retained events in
\* order, and a subscriber that never lagged has every event stored since
\* it attached.
RetainedInOrder ==
    \A s \in Attached :
        /\ PosAfter(got[s], joined[s], Len(got[s])) = next[s]
        /\ \A k \in 1..Len(got[s]) :
              IF got[s][k].lag = 0
              THEN got[s][k].ev = chan[PosAfter(got[s], joined[s], k)]
              ELSE /\ k + BufferSlots <= Len(got[s])
                   /\ \A j \in (k + 1)..(k + BufferSlots) : got[s][j].lag = 0
        /\ (\A k \in 1..Len(got[s]) : got[s][k].lag = 0)
              => Events(got[s]) = SubSeq(chan, joined[s] + 1, next[s])

\* C6 (Lag loses the oldest): a subscriber more than CHANNEL_CAPACITY
\* behind has lost its oldest unread events (its next read is the lag
\* notice counting them), and what it receives after a notice is the
\* retained events in order with none missing, other subscribers losing
\* nothing.
C6_LagLosesOldest ==
    /\ RetainedInOrder
    /\ \A s \in Attached :
          Len(chan) - next[s] > CHANNEL_CAPACITY
            => LET o == RecvOutcome(chan, next[s])
               IN o.kind = "lagged" /\ o.item.lag > 0

\* C7 (Publish without subscribers): a read cycle that broadcasts while no
\* subscriber is attached stores nothing in the channel, still advances the
\* cursor to the end of the file and returns its result; a subscriber never
\* receives an event broadcast before it attached.
C7_NoSubscriberNoOp ==
    /\ [](\A s \in Attached :
            Range(Events(got[s])) \cap Range(SubSeq(published, 1, start[s])) = {})
    /\ [][(Attached = {} /\ published' # published)
            => /\ chan' = chan
               /\ position' = FileBytes(file)
               /\ position' > position
               /\ ret'.some /\ ret'.events # <<>>
               /\ pc' = "idle"]_vars

\* Events were broadcast to nobody, and a subscriber that attached
\* afterwards has received later ones.
C7_Witness ==
    \E s \in Attached :
        start[s] > 0 /\ got[s] # <<>> /\ Len(chan) < Len(published)

\* C8 (Malformed-line tolerance): every line before the cursor, malformed
\* ones included, was counted in a result returned to the caller; no
\* malformed line is ever broadcast; a result's events are well-formed
\* lines and its malformed entries malformed ones; the well-formed events
\* the read cycles returned were all broadcast.
C8_MalformedTolerance ==
    /\ \A i \in 1..LinesBefore(file, position) : i \in reported
    /\ \A e \in Range(published) : file[e]
    /\ \A s \in Attached : \A e \in Range(Events(got[s])) : file[e]
    /\ ret.some => /\ \A e \in Range(ret.events) : file[e]
                   /\ \A m \in Range(ret.malformed) : ~file[m]
    /\ Range(returned) \subseteq Range(published)

\* One good, one malformed, one good line read in one cycle: two events
\* delivered, one malformed line counted.
C8_Witness ==
    /\ file = <<TRUE, FALSE, TRUE>>
    /\ ret.some /\ Len(ret.events) = 2 /\ Len(ret.malformed) = 1
    /\ subState[1] = "attached" /\ Events(got[1]) = <<1, 3>>

\* C9 (Idempotent termination): for every session id, a terminate that
\* returned removed=true is followed only by removed=false; once one has
\* returned true, is_running, get_pid and get_working_dir find no record;
\* terminate on an id that was never stored returns removed=false.
C9_IdempotentTerminate ==
    \A sid \in Sids :
        /\ \A i, j \in DOMAIN termLog[sid] :
              (i < j /\ termLog[sid][i]) => ~termLog[sid][j]
        /\ TRUE \in Range(termLog[sid])
              => ~IsRunning(sid) /\ GetPid(sid) = 0 /\ GetWorkingDir(sid) = "-"
        /\ sid \notin stored => TRUE \notin Range(termLog[sid])

\* terminate was called twice on a stored session: true, then false.
C9_Witness == \E sid \in Sids : termLog[sid] = <<TRUE, FALSE>>

\* C10 (Removed exactly once): every stored record is, at any time, either
\* still in the registry, or held by exactly one terminate call in flight,
\* or accounted for by exactly one removed=true; an id that was never
\* stored has none of the three.
C10_RemovedExactlyOnce ==
    \A sid \in Sids :
        Cardinality({i \in DOMAIN termLog[sid] : termLog[sid][i]})
          + Cardinality({t \in Threads : tpc[t] # "idle" /\ tsid[t] = sid})
          + (IF procs[sid].present THEN 1 ELSE 0)
        = (IF sid \in stored THEN 1 ELSE 0)

\* Calls on one session id returned true and false, the process having
\* exited by itself (no forced kill was sent).
C10_Witness ==
    \E sid \in Sids :
        /\ TRUE \in Range(termLog[sid])
        /\ FALSE \in Range(termLog[sid])
        /\ Len(termLog[sid]) = MaxCalls
        /\ "KILL" \notin Range(sigLog[sid])

\* A terminate call that found the record of sid has not returned yet.
InFlight(sid) == \E t \in Threads : tpc[t] # "idle" /\ tsid[t] = sid

GracefulSignals == <<"TERM-group", "TERM">>

\* C11 (Graceful-then-forced): the forced signal is sent only after the
\* bounded wait has elapsed (or a status check failed); a process that was
\* still running when the wait elapsed has been sent the forced signal by
\* the time terminate has returned, and is gone; and removed=true is
\* returned only for a process that has exited.
C11_GracefulThenForced ==
    /\ \A t \in Threads :
          tpc[t] = "kill" =>
             polls[t] = ExitPolls \/ waitLog[tsid[t]] = "error"
    /\ \A sid \in Sids :
          /\ "KILL" \in Range(sigLog[sid])
                => /\ waitLog[sid] \in {"elapsed", "error"}
                   /\ osState[sid] = "reaped"
                   /\ TRUE \in Range(termLog[sid])
          /\ (waitLog[sid] = "elapsed" /\ ~InFlight(sid))
                => "KILL" \in Range(sigLog[sid]) /\ osState[sid] = "reaped"
          /\ TRUE \in Range(termLog[sid]) => osState[sid] \notin {"running", "zombie"}

\* A process outlived all the exit polls, was killed, and terminate has
\* returned removed=true.
C11_Witness ==
    \E sid \in Sids :
        /\ waitLog[sid] = "elapsed"
        /\ sigLog[sid] = GracefulSignals \o <<"KILL">>
        /\ termLog[sid] = <<TRUE>>
        /\ osState[sid] = "reaped"

\* C12 (Phase order): the signals sent to a process are, in order, the
\* graceful signal to the group and to the process and then at most the
\* forced one; no exit poll is made before the graceful signals, at most
\* ExitPolls are made; the forced signal follows only a wait that elapsed
\* with every poll finding the process running, or a failed poll; after a
\* poll that observed the exit no forced signal is ever sent.
C12_PhasesOrdered ==
    /\ \A t \in Threads :
          /\ polls[t] <= ExitPolls
          /\ tpc[t] = "signal" => polls[t] = 0 /\ sigLog[tsid[t]] = <<>>
          /\ tpc[t] \in {"poll", "kill"} => sigLog[tsid[t]] = GracefulSignals
          /\ (tpc[t] = "kill" /\ waitLog[tsid[t]] = "elapsed")
                => polls[t] = ExitPolls
          /\ tpc[t] = "poll" => waitLog[tsid[t]] = "none"
    /\ \A sid \in Sids :
          /\ sigLog[sid] \in {<<>>, GracefulSignals,
                              GracefulSignals \o <<"KILL">>}
          /\ waitLog[sid] # "none" => sigLog[sid] # <<>>
          /\ waitLog[sid] = "exited" => "KILL" \notin Range(sigLog[sid])
          /\ "KILL" \in Range(sigLog[sid])
                => waitLog[sid] \in {"elapsed", "error"}

\* A poll observed the exit: terminate returned without a forced kill,
\* while the other session's terminate is in its last phase after polling.
C12_Witness ==
    \E sid \in Sids, t \in Threads :
        /\ waitLog[sid] = "exited"
        /\ termLog[sid] = <<TRUE>>
        /\ sigLog[sid] = GracefulSignals
        /\ tpc[t] = "idle"
        /\ \E u \in Sids : u # sid /\ "KILL" \in Range(sigLog[u])

\* C13 (Reaped on return): once terminate has returned removed=true for a
\* session, its child's exit status has been collected, by a successful
\* exit poll or by the wait after the forced kill; an exited child whose
\* status is uncollected still has its record, or a terminate in flight.
C13_ReapedOnReturn ==
    \A sid \in Sids :
        /\ TRUE \in Range(termLog[sid]) => osState[sid] = "reaped"
        /\ osState[sid] = "reaped"
              => waitLog[sid] = "exited" \/ "KILL" \in Range(sigLog[sid])
        /\ osState[sid] = "zombie" => IsRunning(sid) \/ InFlight(sid)

\* Both sessions were terminated and reaped, one by an exit poll and one by
\* the wait after the kill.
C13_Witness ==
    /\ \A sid \in Sids : termLog[sid] = <<TRUE>> /\ osState[sid] = "reaped"
    /\ \E sid \in Sids : waitLog[sid] = "exited"
    /\ \E sid \in Sids : waitLog[sid] = "elapsed"

\* C14 (Exited is success): a terminate that found a record removes it
\* before doing anything that can fail, and once it has returned it has
\* returned removed=true, whether the process had exited before the call
\* or during the wait, a signal send failed, or a status check failed.
C14_ExitedIsSuccess ==
    \A sid \in Sids :
        /\ InFlight(sid) => ~IsRunning(sid)
        /\ (sigLog[sid] # <<>> /\ ~InFlight(sid))
              => TRUE \in Range(termLog[sid]) /\ ~IsRunning(sid)
        /\ (sigFailed[sid] \/ waitLog[sid] \in {"exited", "error"})
              => ~IsRunning(sid)

\* A signal send failed, a poll found the process exited, and terminate
\* returned removed=true; on the other session a status check failed and
\* its terminate returned removed=true as well.
C14_Witness ==
    \E sid \in Sids, u \in Sids :
        /\ sigFailed[sid] /\ waitLog[sid] = "exited"
        /\ termLog[sid] = <<TRUE>>
        /\ waitLog[u] = "error" /\ termLog[u] = <<TRUE>>

\* C15 (Lock not held while polling): while a terminate call is in its
\* poll wait the registry mutex is free, so that a lookup or a store for
\* another session can proceed.
C15_LockFreeWhilePolling ==
    \A t \in Threads :
        tpc[t] = "poll" => lock = "free"

\* The record of sid is stored and no terminate has taken it.
Registered(sid) ==
    /\ sid \in stored
    /\ TRUE \notin Range(termLog[sid])
    /\ ~InFlight(sid)

\* C16 (is_running is a pure lookup): is_running(s) holds exactly when a
\* record for s was stored and no terminate has removed it, whatever the
\* state of the OS process; a lookup answers that, with the pid and the
\* directory of the record, and changes nothing in the registry.
C16_IsRunningPureLookup ==
    /\ [](\A sid \in Sids : IsRunning(sid) <=> Registered(sid))
    /\ [][lookup' # lookup
            => /\ lookup'.found = Registered(lookup'.sid)
               /\ lookup'.pid = (IF Registered(lookup'.sid)
                                 THEN PidOf(lookup'.sid) ELSE 0)
               /\ lookup'.dir = (IF Registered(lookup'.sid)
                                 THEN DirOf(lookup'.sid) ELSE "-")
               /\ UNCHANGED <<procs, osState, lock, tpc, tsid, polls, sigLog,
                              termLog, stored, sigFailed, waitLog>>]_vars

\* is_running answered true for a session whose process has exited on its
\* own and has not been terminated.
C16_Witness ==
    /\ lookup.op = "is_running" /\ lookup.found
    /\ osState[lookup.sid] = "zombie"
    /\ sigLog[lookup.sid] = <<>>
    /\ IsRunning(lookup.sid)

\* What the pointer of the marker directory names, if anything.
PointerTarget ==
    IF pointer.state = "text" THEN {Join(Trim(pointer.text))} ELSE {}

C18_SessionIsolation ==
    /\ \A k \in DOMAIN tailers :
          \A i \in DOMAIN tailers[k].sent :
              tailers[k].sent[i] = [path |-> tailers[k].path, line |-> i]
    /\ \A c \in Clients :
          clients[c].hub # 0 =>
             \A i \in DOMAIN clients[c].got :
                 clients[c].got[i] = [path |-> tailers[clients[c].hub].path,
                                      line |-> clients[c].from + i]

\* Both files were appended to and both watchers have broadcast; the
\* client of the second session has received that session's events only,
\* and the client of the first session has received the first's.
C18_Witness ==
    /\ clients["c1"].hub = 1 /\ Len(clients["c1"].got) = MaxLogLines
    /\ clients["c2"].hub = 2 /\ Len(clients["c2"].got) = MaxLogLines
    /\ Len(tailers[1].sent) = MaxLogLines
    /\ Len(tailers[2].sent) = MaxLogLines

\* C19 (Pump progress): for every watcher, an event appended to its log
\* and notified to it is eventually broadcast on its hub, and an event
\* broadcast on a hub is eventually forwarded to a client subscribed to it.
C19_PumpProgress ==
    /\ \A k \in 1..MaxTailers : \A n \in 1..MaxLogLines :
          (k \in DOMAIN tailers /\ Watching(k) /\ tailers[k].notified
              /\ logs[tailers[k].path] >= n)
            ~> (k \in DOMAIN tailers /\ Len(tailers[k].sent) >= n)
    /\ \A n \in 1..MaxLogLines :
          (clients["c1"].hub # 0
              /\ Len(tailers[clients["c1"].hub].sent) >= clients["c1"].from + n)
            ~> (Len(clients["c1"].got) >= n)

\* The watchers (file watch plus cursor) that exist on a log file.
TailersOn(p) == {k \in DOMAIN tailers : tailers[k].path = p /\ Watching(k)}

\* C20 (One tailer per log): at any time at most one watcher exists on a
\* log file, counting those created at startup and by start_session.
C20_OneTailerPerLog ==
    \A p \in LogPaths : Cardinality(TailersOn(p)) <= 1

\* C21: wait_for_events gives None at its deadline: the deadline is the one
\* fixed at the call and no wake moves it; once it has passed, the call's
\* only step is to return None with the notification queue untouched; and
\* whenever the call returns None, nothing was broadcast during the call and
\* the cursor is where it was at the call.
C21_NoUpdateAtDeadline ==
    [][/\ (pc = "waiting" /\ pc' = "waiting" => deadline' = deadline)
       /\ (pc = "waiting" /\ elapsed >= deadline
              /\ (pc' # pc \/ Len(rx') < Len(rx))
             => pc' = "idle" /\ ret' = NoResult /\ rx' = rx)
       /\ (pc = "waiting" /\ pc' = "idle" /\ ~ret'.some
             => /\ position' = entry.position
                /\ Len(published') = entry.sent
                /\ chan' = chan)]_vars

\* A call with time to wait had a spurious wake, saw its deadline pass with
\* unread lines in the log, and returned None.
C21_Witness ==
    /\ pc = "idle"
    /\ ret = NoResult
    /\ spurious
    /\ deadline > 0
    /\ elapsed >= deadline
    /\ position = entry.position
    /\ FileBytes(file) > position

\* C22: a result returned by wait_for_events has an event or a malformed
\* line in it and its events are the last ones broadcast; a wake whose read
\* finds nothing returns nothing: the call goes on waiting, with the result
\* of the caller, the hub and the deadline as they were.
C22_NoEmptyResult ==
    /\ [](ret.some =>
            /\ (ret.events # <<>> \/ ret.malformed # <<>>)
            /\ Len(ret.events) <= Len(published)
            /\ SubSeq(published, Len(published) - Len(ret.events) + 1,
                      Len(published)) = ret.events)
    /\ [][~spurious /\ spurious'
            => /\ pc = "waiting" /\ pc' = "waiting"
               /\ UNCHANGED <<ret, published, chan, returned, clockVars>>]_vars

\* A result with events in it has been returned, and the call after it has
\* had a spurious wake and is still waiting.
C22_Witness ==
    /\ ret.some
    /\ ret.events # <<>>
    /\ pc = "waiting"
    /\ spurious

\* C23: a notification of a kind other than modify or create is consumed
\* without a read: the cursor, the hub, the result of the caller and the
\* deadline are unchanged and the call is still waiting.
C23_OtherKindsIgnored ==
    [][pc = "waiting" /\ rx # <<>> /\ Head(rx) = "Other" /\ rx' = Tail(rx)
         => /\ pc' = "waiting"
            /\ UNCHANGED <<position, lastReadLen, ret, hubVars, published,
                           returned, reported, spurious, deadline, elapsed,
                           entry>>]_vars

\* An ignored notification has been consumed while unread lines were in the
\* log: the call is still waiting and the lines are still unread.
C23_Witness ==
    /\ pc = "waiting"
    /\ ignored
    /\ FileBytes(file) > position
    /\ Remaining > 0

ExistingSession(id) ==
    SessionExists(id) \/ id \in active \/ id \in processes

\* C25: no handler that looks a session up by id answers session_not_found
\* for a session that exists, whichever scheme its id is of (for the
\* stream: a session that exists and has a hub).
C25_BothSchemesAccepted ==
    [][resp' # resp /\ resp'.body = "session_not_found"
         => IF resp'.op = "stream"
            THEN ~(ExistingSession(resp'.id) /\ resp'.id \in watchers)
            ELSE ~ExistingSession(resp'.id)]_vars

\* C26: the watcher task of a started session does not wait for ever: it
\* registers its hub or it ends.
C26_StartupWaitEnds ==
    \A id \in StartedIds :
        (task[id].state = "polling") ~> (task[id].state # "polling")

\* C27: a start_session that answers anything but 201 leaves the registry,
\* the OS processes, the active sessions, the hubs and the tasks as they
\* were; one that answers 201 has stored the ProcessRecord of a running
\* child and the active session under the new id, and spawned its task.
C27_StartAllOrNothing ==
    [][resp' # resp /\ resp'.op = "start"
         => IF resp'.code = 201
            THEN /\ resp'.id \notin processes \cup active
                 /\ processes' = processes \cup {resp'.id}
                 /\ active' = active \cup {resp'.id}
                 /\ child'[resp'.id] = "running"
                 /\ task'[resp'.id].state = "polling"
                 /\ watchers' = watchers
            ELSE /\ resp'.code \in {404, 500}
                 /\ UNCHANGED <<processes, active, child, task, watchers,
                                streams>>]_vars

\* The process could not be created and start_session answered 500: no
\* record, no active session, no hub, no task.
C27_Witness ==
    /\ resp = Response("start", NoId, 500, "failed_to_spawn")
    /\ processes = {}
    /\ active = {}
    /\ watchers = {}
    /\ \A id \in StartedIds : task[id] = NoTask

C30_PauseResumePure ==
    [][resp' # resp /\ resp'.op \in {"pause", "resume"}
         => /\ resp'.code = (IF resp'.id \in processes THEN 200 ELSE 404)
            /\ resp'.body =
                  (IF resp'.id \notin processes THEN "session_not_found"
                   ELSE IF resp'.op = "pause" THEN "paused" ELSE "resumed")
            /\ UNCHANGED <<processes, child, watchers, active, task, streams,
                           pointerFile, blocked>>]_vars

\* A started session has been resumed with its record, child and task as
\* start_session left them.
C30_Witness ==
    /\ resp = Response("resume", Uuid(1), 200, "resumed")
    /\ processes = {Uuid(1)}
    /\ child[Uuid(1)] = "running"

\* C29: a lag notice puts nothing on an SSE stream and does not end it: the
\* stream is open, every frame is an 'event: workflow' frame, and the
\* frames are, one each and in order, the events the subscription has
\* yielded, which after a notice are the retained ones and those that
\* followed, none missing.
C29_LagNotOnStream ==
    \A s \in Attached :
        LET evs == Events(got[s])
            notices == {i \in DOMAIN got[s] : got[s][i].lag > 0}
            last == IF notices = {} THEN 0
                    ELSE CHOOSE i \in notices : \A j \in notices : j <= i
            since == Len(got[s]) - last
        IN /\ sse[s].open
           /\ \A i \in DOMAIN sse[s].frames :
                 sse[s].frames[i].event = "workflow"
           /\ [i \in DOMAIN sse[s].frames |-> sse[s].frames[i].data]
                 = [i \in DOMAIN evs |-> Json(evs[i])]
           /\ StrictlyIncreasing(evs)
           /\ SubSeq(evs, Len(evs) - since + 1, Len(evs))
                 = SubSeq(chan, next[s] - since + 1, next[s])

\* A client has lagged, and its stream carries the retained events and one
\* that was broadcast after the notice.
C29_Witness ==
    \E s \in Attached :
        /\ got[s] # <<>>
        /\ got[s][1].lag > 0
        /\ Len(sse[s].frames) > BufferSlots
        /\ next[s] = Len(chan)

\* The lines of itLog that deserialize to an iteration.started event with
\* an iteration number and a timestamp, by line number.
IsStart(line) ==
    /\ line.text = "json"
    /\ line.key = "type"
    /\ line.name = "iteration.started"
    /\ line.iteration # None
    /\ line.timestamp # None
IsEnd(line) ==
    /\ line.text = "json"
    /\ line.key = "type"
    /\ line.name = "iteration.completed"
    /\ line.iteration # None
    /\ line.timestamp # None

\* C31: from a log of an iteration.started line for iteration n at t1 and
\* an iteration.completed line for n at t2, whether the lines name the
\* event under "type" or, as the scenario's lines do, under "topic",
\* exactly one iteration record is derived, and its duration is t2 - t1
\* seconds.
C31_OneRecordWithDuration ==
    \A key \in {"type", "topic"} :
        itResult.called
        /\ Len(itLog) = 2
        /\ itLog[1].text = "json" /\ itLog[2].text = "json"
        /\ itLog[1].key = key /\ itLog[2].key = key
        /\ itLog[1].name = "iteration.started"
        /\ itLog[2].name = "iteration.completed"
        /\ itLog[1].iteration # None
        /\ itLog[1].iteration = itLog[2].iteration
        /\ itLog[1].timestamp = Some(T0)
        /\ itLog[2].timestamp = Some(T60)
        => /\ Len(itResult.iterations) = 1
           /\ itResult.iterations[1].number = itLog[1].iteration[1]
           /\ itResult.iterations[1].duration_secs = Some(60)

\* C39: parse_iterations returns one item per iteration.started event that
\* carries a number and a timestamp, in file order, whatever else the file
\* holds; an item whose start is followed by no completed event before the
\* next start or the end of the file has no duration.
C39_NoStartLost ==
    itResult.called
    => LET starts == SelectSeq([i \in 1..Len(itLog) |-> i],
                               LAMBDA i : IsStart(itLog[i]))
           items == itResult.iterations
       IN /\ Len(items) = Len(starts)
          /\ \A k \in 1..Len(starts) :
                /\ items[k].number = itLog[starts[k]].iteration[1]
                /\ items[k].started_at = itLog[starts[k]].timestamp[1]
                /\ LET upto == IF k < Len(starts) THEN starts[k + 1]
                               ELSE Len(itLog) + 1
                   IN (\A j \in (starts[k] + 1)..(upto - 1) :
                          ~IsEnd(itLog[j]))
                      => items[k].duration_secs = None

\* The line is an event of the merge queue for loop id x.
IsLoopEvent(line, x, names) ==
    /\ line.text = "json"
    /\ line.key = "type"
    /\ line.id = Some(x)
    /\ line.name \in names
\* Line numbers of mqLog with a loop.queued event for x, and the last line
\* with an event that applied to x: a loop.queued, or a loop.merged or
\* loop.merge_failed that follows one.
QueuedAt(x) == {i \in DOMAIN mqLog : IsLoopEvent(mqLog[i], x, {"loop.queued"})}
LastApplied(x) ==
    CHOOSE i \in DOMAIN mqLog :
        /\ IsLoopEvent(mqLog[i], x,
              {"loop.queued", "loop.merged", "loop.merge_failed"})
        /\ \E j \in QueuedAt(x) : j <= i
        /\ \A k \in DOMAIN mqLog :
              k > i => ~IsLoopEvent(mqLog[k], x,
                          {"loop.queued", "loop.merged", "loop.merge_failed"})
IdsOf(list) == {list[i].id : i \in DOMAIN list}

\* C38: the merge queue lists exactly the loop ids that have a loop.queued
\* event, each once and in one list only: in pending when the last event
\* applied to it was loop.queued, in completed with status 'completed' or
\* 'failed' when it was loop.merged or loop.merge_failed; ids with no
\* loop.queued event, and lines that are malformed, blank or unrelated,
\* contribute nothing.
C38_QueuePartition ==
    mqResult.called
    => LET queued == {x \in LoopIds : QueuedAt(x) # {}}
           pending == mqResult.pending
           completed == mqResult.completed
       IN /\ IdsOf(pending) \cup IdsOf(completed) = queued
          /\ IdsOf(pending) \cap IdsOf(completed) = {}
          /\ Len(pending) + Len(completed) = Cardinality(queued)
          /\ \A i \in DOMAIN pending :
                /\ pending[i].status = "pending"
                /\ mqLog[LastApplied(pending[i].id)].name = "loop.queued"
          /\ \A i \in DOMAIN completed :
                LET last == mqLog[LastApplied(completed[i].id)]
                IN completed[i].status =
                      (IF last.name = "loop.merged" THEN "completed"
                       ELSE "failed")
                   /\ last.name # "loop.queued"

\* One loop is queued and still pending, another is queued and merged.
C38_Witness ==
    /\ mqResult.called
    /\ Len(mqResult.pending) = 1
    /\ Len(mqResult.completed) = 1
    /\ mqResult.completed[1].status = "completed"

\* C37: each question is answered at most once: at most one post_response
\* naming it succeeds and at most one human.response event is appended for
\* it, every other call answering question_not_found; and the answer to a
\* question removes that question only, not one asked later of the same
\* session.
C37_AnsweredAtMostOnce ==
    \A q \in QuestionIds :
        /\ Cardinality({i \in DOMAIN acks[q] : acks[q][i] = "success"}) <= 1
        /\ Cardinality({i \in DOMAIN responses : responses[i] = q}) <= 1
        /\ \A r \in removals : r.answered = q => r.removed = q

\* C35: a path returned by resolve_events_path is an existing log file:
\* the file the pointer names, events.jsonl, or an events-*.jsonl of the
\* marker directory; it is never a directory, whatever the pointer holds.
C35_ResolvedIsLogFile ==
    resolved.done /\ resolved.some
    => /\ resolved.path \in fsys
       /\ resolved.path # RootDir
       /\ \/ pointer.state = "text" /\ Len(Trim(pointer.text)) = 1
               /\ resolved.path = Trim(pointer.text)[1].path
          \/ resolved.path = InMarker(StaticName)
          \/ resolved.path \in StampedIn(fsys)

\* C36: stream_events ends with an HTTP response, 200 or 404, for every
\* session id, also one of fewer than 8 bytes.
C36_StreamAlwaysAnswers ==
    [][resp' # resp /\ resp'.op = "stream"
         => resp'.code \in {200, 404} /\ resp'.body # "panic"]_vars

\* The parts of C32 that do not speak of the hub: of the stop requests for
\* a session exactly one answers 'stopped', the one that terminates it,
\* and every other 404; a stopped session has no ProcessRecord and no
\* active session, and stream, pause, resume, steer and emit answer 404
\* session_not_found for it.
StoppedIsRefused ==
    /\ \A id \in StartedIds :
          /\ Cardinality({i \in DOMAIN stopLog[id] :
                             stopLog[id][i].code = 200})
                = (IF child[id] = "terminated" THEN 1 ELSE 0)
          /\ \A i \in DOMAIN stopLog[id] : stopLog[id][i].code \in {200, 404}
          /\ Stopped(id) => id \notin processes /\ id \notin active
    /\ resp.op \in {"stream", "pause", "resume", "steer", "emit"}
          /\ resp.id \in StartedIds /\ Stopped(resp.id)
          => resp.code = 404 /\ resp.body = "session_not_found"

\* C32: once stop_session has answered 'stopped' for a session, the
\* session has no ProcessRecord, no active session and no hub, and every
\* later request for it answers 404 session_not_found; of the stop
\* requests for one session exactly one answers 'stopped'.
C32_StoppedIsGone ==
    /\ StoppedIsRefused
    /\ \A id \in StartedIds :
          Stopped(id) => id \notin processes \cup active \cup watchers

\* C33: a session for which stop_session has answered 'stopped' has no hub
\* in the watchers map, then and ever after.
C33_NoHubAfterStop ==
    \A id \in StartedIds : Stopped(id) => id \notin watchers

\* C34: a pump loop that runs goes on running: no return of
\* wait_for_events, be it events, a timeout, a read error or a watcher
\* error, and no stop_session ends it.
C34_PumpNeverEnds ==
    [][\A id \in StartedIds :
          task[id].state = "pumping" => task'[id].state = "pumping"]_vars

\* The pump loop of a stopped session has seen every kind of return and
\* has waited again after the stop.
C34_Witness ==
    \E id \in StartedIds :
        /\ task[id].state = "pumping"
        /\ child[id] = "terminated"
        /\ resp = Response("stop", id, 200, "stopped")
        /\ pump[id].afterStop
        /\ pump[id].seen = WaitOutcomes
====
